---- MODULE Spec2Model ----
(***************************************************************************)
(* vibe-code: the scan / prompt / call / recover control flow of           *)
(* analyzeRepository (src/src/analyzer.ts), its error classifier           *)
(* (src/src/error-handler.ts), the fallback path                           *)
(* (src/src/fallback-analyzer.ts), the report writer (src/src/report.ts)   *)
(* and the top-level handler handleAnalysis (src/src/index.ts).            *)
(***************************************************************************)
EXTENDS Integers, Sequences, FiniteSets, TLC

(***************************************************************************)
(* Bounds of the model.                                                    *)
(***************************************************************************)
\* How many times the user may re-enter analyzeRepository (wait-and-retry or
\* new key) in one run; the code itself has no such limit.
MaxReentries == 1

\* How many fragments a message handed to the classifier is made of.
MaxFragments == 3

\* The largest number of seconds looked for in a retryDelay: "<N>s" text.
MaxDelay == 30

\* How many files of the scanned tree are not filler images.
MaxSpecial == 2

\* How many files of a scan result handed to the estimator, the prompt builder,
\* the report assembler and the fallback analyzer are not filler modules.
MaxPicked == 2

(***************************************************************************)
(* Strings.  Messages are TLA+ strings; the JavaScript string methods the  *)
(* code uses are computed character by character.                          *)
(***************************************************************************)
UpperAlphabet == "ABCDEFGHIJKLMNOPQRSTUVWXYZ"
LowerAlphabet == "abcdefghijklmnopqrstuvwxyz"
Digits == "0123456789"

CharAt(s, at) == SubSeq(s, at, at)

\* The 1-based position of character c in s, 0 when it does not occur.
IndexOfChar(s, c) ==
    IF \E k \in 1..Len(s) : CharAt(s, k) = c
    THEN CHOOSE k \in 1..Len(s) :
            /\ CharAt(s, k) = c
            /\ \A j \in 1..(k - 1) : CharAt(s, j) # c
    ELSE 0

LowerChar(c) ==
    LET k == IndexOfChar(UpperAlphabet, c)
    IN  IF k = 0 THEN c ELSE CharAt(LowerAlphabet, k)

\* String.prototype.toLowerCase
ToLowerCase(s) ==
    LET lower[k \in 0..Len(s)] ==
            IF k = 0 THEN "" ELSE lower[k - 1] \o LowerChar(CharAt(s, k))
    IN  lower[Len(s)]

UpperChar(c) ==
    LET k == IndexOfChar(LowerAlphabet, c)
    IN  IF k = 0 THEN c ELSE CharAt(UpperAlphabet, k)

\* String.prototype.toUpperCase
ToUpperCase(s) ==
    LET upper[k \in 0..Len(s)] ==
            IF k = 0 THEN "" ELSE upper[k - 1] \o UpperChar(CharAt(s, k))
    IN  upper[Len(s)]

\* String.prototype.includes
Includes(s, sub) ==
    \E at \in 1..(Len(s) - Len(sub) + 1) : SubSeq(s, at, at + Len(sub) - 1) = sub

IsDigit(c) == IndexOfChar(Digits, c) # 0
IsSpace(c) == c = " "
IsQuote(c) == c = "'" \/ c = "\""

\* Number.parseInt(digits, 10) of a non-empty run of decimal digits.
ParseInt(ds) ==
    LET value[k \in 0..Len(ds)] ==
            IF k = 0 THEN 0
            ELSE value[k - 1] * 10 + (IndexOfChar(Digits, CharAt(ds, k)) - 1)
    IN  value[Len(ds)]

\* The first position >= from of s whose character is not in the class
\* (Len(s) + 1 when every later character is): a greedy  x*  .
FirstNot(InClass(_), s, from) ==
    LET stops == { k \in from..Len(s) : ~ InClass(CharAt(s, k)) } \cup { Len(s) + 1 }
    IN  CHOOSE k \in stops : \A j \in stops : k <= j
SkipSpaces(s, from) == FirstNot(IsSpace, s, from)
SkipQuotes(s, from) == FirstNot(IsQuote, s, from)
SkipDigits(s, from) == FirstNot(IsDigit, s, from)

\* /retrydelay['":][\s]*['"]*(\d+)s/i  tried at position p of s: the captured
\* digits as a one-element sequence, << >> when there is no match at p.  The
\* three starred classes and the literal that follows each are disjoint, so
\* the greedy match is the only one.
RetryMatchAt(s, p) ==
    LET kw == "retrydelay"
        a  == p + Len(kw)
        b  == SkipSpaces(s, a + 1)
        c  == SkipQuotes(s, b)
        d  == SkipDigits(s, c)
    IN  IF /\ a <= Len(s)
           /\ ToLowerCase(SubSeq(s, p, a - 1)) = kw
           /\ (IsQuote(CharAt(s, a)) \/ CharAt(s, a) = ":")
           /\ d > c
           /\ d <= Len(s)
           /\ LowerChar(CharAt(s, d)) = "s"
        THEN << SubSeq(s, c, d - 1) >>
        ELSE << >>

\* errorMessage.match(...) : the leftmost match's capture group, or << >>.
RetryMatch(s) ==
    LET hits == { p \in 1..Len(s) : RetryMatchAt(s, p) # << >> }
    IN  IF hits = {} THEN << >>
        ELSE RetryMatchAt(s, CHOOSE p \in hits : \A r \in hits : p <= r)

(***************************************************************************)
(* Error classifier (src/src/error-handler.ts).  An error is a record      *)
(* [name, message]; a classification is a GeminiErrorInfo: type, message,  *)
(* suggestions (each without its leading pictograph) and retryAfter        *)
(* (<< >> is JavaScript's undefined, << n >> the number n).                *)
(***************************************************************************)
Undefined == << >>

\* suggestions.push(...) for the lines guarded by one condition.
PushIf(cond, lines) == IF cond THEN lines ELSE << >>

\* A parseQuotaError that gives the per-minute lines without looking for
\* "requests".
FreeTierSuggestions_PerMinuteAlone(errorMessage) ==
    << "You're using the FREE tier of Gemini API" >>
    \o PushIf(Includes(errorMessage, "PerMinute"),
              << "Free tier: 15 requests per minute limit",
                 "Wait 1-2 minutes before trying again" >>)
    \o << "Consider upgrading to a paid plan for higher limits",
          "Billing info: https://console.cloud.google.com/billing" >>

\* The suggestions of the free_tier branch of parseQuotaError.
FreeTierSuggestions(errorMessage) ==
    << "You're using the FREE tier of Gemini API" >>
    \o PushIf(Includes(errorMessage, "input_token_count"),
              << "Too many input tokens used (text sent to AI)",
                 "Try analyzing smaller files or fewer files at once" >>)
    \o PushIf(Includes(errorMessage, "requests"),
              << "Too many requests made to the API" >>
              \o PushIf(Includes(errorMessage, "PerMinute"),
                        << "Free tier: 15 requests per minute limit",
                           "Wait 1-2 minutes before trying again" >>)
              \o PushIf(Includes(errorMessage, "PerDay"),
                        << "Free tier: 1,500 requests per day limit",
                           "Wait until tomorrow or upgrade to paid plan" >>))
    \o << "Consider upgrading to a paid plan for higher limits",
          "Billing info: https://console.cloud.google.com/billing" >>

\* `Suggested retry time: ${retryAfter} seconds`
RetrySuggestion(seconds) ==
    "Suggested retry time: " \o ToString(seconds) \o " seconds"

\* retryAfter is << >> unless the retry-delay pattern matches; the retry line
\* is pushed inside  if (retryMatch) , once per match.
parseQuotaError(errorMessage) ==
    LET numberOf(retryMatch) ==
            IF retryMatch # << >>
            THEN << ParseInt(retryMatch[1]) >>
            ELSE Undefined
        errorInfo(freeTier, retryAfter) ==
            [ type        |-> "quota_exceeded",
              message     |->
                  IF freeTier
                  THEN "You have exceeded your free tier quota limits"
                  ELSE "You have exceeded your API quota limits",
              suggestions |->
                  (IF freeTier
                   THEN FreeTierSuggestions(errorMessage)
                   ELSE << "Check your billing and payment details",
                           "You may need to increase your quota limits" >>)
                  \o [ k \in 1..Len(retryAfter) |->
                         RetrySuggestion(retryAfter[k]) ],
              retryAfter  |-> retryAfter ]
    IN  errorInfo(Includes(errorMessage, "free_tier"),
                  numberOf(RetryMatch(errorMessage)))

\* A classifier whose rate-limit branch answers as the quota branch does.
parseRateLimitError_AsQuota(errorMessage) == parseQuotaError(errorMessage)

parseRateLimitError(errorMessage) ==
    LET perMinute == Includes(errorMessage, "requests per minute")
    IN  [ type        |-> "rate_limit",
          message     |-> IF perMinute THEN "Too many requests per minute"
                          ELSE "Rate limit exceeded",
          suggestions |->
              PushIf(perMinute,
                     << "You're making requests too quickly",
                        "Wait 1-2 minutes before trying again" >>)
              \o PushIf(Includes(errorMessage, "quota metric"),
                        << "API quota limits reached",
                           "Try using a lighter model like gemini-1.5-flash" >>)
              \o << "The system will automatically retry with delays" >>,
          retryAfter  |-> Undefined ]

\* A classifier that tests the rate-limit rule before the quota rule (and
\* knows no third rule).
parseGeminiError_RateLimitFirst(err) ==
    LET errorMessage == ToLowerCase(err.message)
    IN  IF /\ Includes(errorMessage, "429")
           /\ Includes(errorMessage, "rate_limit_exceeded")
        THEN parseRateLimitError(err.message)
        ELSE IF \/ Includes(errorMessage, "exceeded your current quota")
                \/ Includes(errorMessage, "quotafailure")
        THEN parseQuotaError(err.message)
        ELSE [ type        |-> "unknown",
               message     |-> err.message,
               suggestions |-> << >>,
               retryAfter  |-> Undefined ]

parseGeminiError(err) ==
    LET errorMessage == ToLowerCase(err.message)
    IN  IF \/ Includes(errorMessage, "exceeded your current quota")
           \/ Includes(errorMessage, "quotafailure")
        THEN parseQuotaError(err.message)
        ELSE IF /\ Includes(errorMessage, "429")
                /\ Includes(errorMessage, "rate_limit_exceeded")
        THEN parseRateLimitError(err.message)
        ELSE IF \/ Includes(errorMessage, "401")
                \/ Includes(errorMessage, "api_key")
        THEN [ type        |-> "invalid_key",
               message     |-> "Invalid or missing API key",
               suggestions |->
                   << "Check that your API key is correct",
                      "Ensure your API key has the necessary permissions",
                      "Get a new API key at: https://makersuite.google.com/app/apikey" >>,
               retryAfter  |-> Undefined ]
        ELSE IF \/ Includes(errorMessage, "400")
                \/ Includes(errorMessage, "content")
        THEN [ type        |-> "content_too_large",
               message     |-> "Request content is too large or malformed",
               suggestions |->
                   << "Try analyzing a smaller repository",
                      "Reduce the number of files being analyzed",
                      "Use a different model that supports larger inputs" >>,
               retryAfter  |-> Undefined ]
        ELSE IF /\ Includes(errorMessage, "model")
                /\ Includes(errorMessage, "not found")
        THEN [ type        |-> "model_unavailable",
               message     |-> "The selected model is not available",
               suggestions |->
                   << "Try a different model like gemini-1.5-flash",
                      "Check if the model name is correct",
                      "Some models may not be available in your region" >>,
               retryAfter  |-> Undefined ]
        ELSE [ type        |-> "unknown",
               message     |-> err.message,
               suggestions |->
                   << "Try again in a few minutes",
                      "Check your internet connection",
                      "Contact support if the issue persists" >>,
               retryAfter  |-> Undefined ]

\* JavaScript's  x || d  for an optional number x: undefined and 0 are falsy.
OrDefault(x, d) == IF x = Undefined THEN d ELSE IF x[1] = 0 THEN d ELSE x[1]

(***************************************************************************)
(* The environment: what the Gateway, the filesystem and the user can      *)
(* answer.                                                                 *)
(***************************************************************************)
\* Messages the provider's SDK raises, one or more per classification.
QuotaMessage      == "[429 Too Many Requests] You exceeded your current quota"
QuotaMessageZero  == QuotaMessage \o ", retryDelay: \"0s\""
QuotaMessageThree == QuotaMessage \o ", retryDelay: \"3s\""
RateMessage       == "[429 Too Many Requests] RATE_LIMIT_EXCEEDED"
KeyMessage        == "[400 Bad Request] API key not valid: API_KEY_INVALID"
ContentMessage    == "[400 Bad Request] Request payload size exceeds the limit"
ModelMessage      == "[404 Not Found] models/gemini-x is not found"
UnknownMessage    == "fetch failed"

GatewayMessages ==
    { QuotaMessage, QuotaMessageZero, QuotaMessageThree, RateMessage,
      KeyMessage, ContentMessage, ModelMessage, UnknownMessage }

\* The directory the tool is run in; it is part of every filesystem error's
\* message.
WorkingDirs == { "/work/app", "/work/401k-planner" }

\* The key typed at getGeminiConfig's prompt.
InitialApiKey == "key-0"

\* What getGeminiConfig can return: a model of GEMINI_MODELS with its tier and
\* the advanced-features answer.
Configs ==
    { [ model |-> "gemini-1.5-flash", apiKey |-> InitialApiKey,
        modelType |-> "standard", enableAdvancedFeatures |-> FALSE ],
      [ model |-> "gemini-1.5-pro-advanced", apiKey |-> InitialApiKey,
        modelType |-> "advanced", enableAdvancedFeatures |-> TRUE ],
      [ model |-> "gemini-1.5-flash-advanced", apiKey |-> InitialApiKey,
        modelType |-> "advanced", enableAdvancedFeatures |-> FALSE ] }

\* What the user may type at the new-key prompt (the rejected key again
\* included: the prompt does not validate).
TypedKeys == { "key-0", "key-1" }

NoError   == [ name |-> "", message |-> "" ]
NoText    == [ src |-> "none", id |-> 0, hasDescription |-> FALSE ]
NoReport  == [ geminiSummary |-> NoText,
               description |-> [ src |-> "none", id |-> 0 ],
               files |-> 0, modelUsed |-> "", modelType |-> "" ]
NoPrompt  == [ build |-> 0, files |-> 0, modelType |-> "", enhanced |-> FALSE ]
NoClient  == [ apiKey |-> "", model |-> "" ]

\* Pieces of provider and filesystem messages, in the letter case in which
\* they occur; a message handed to the classifier alone is some of them, in
\* this order, separated by ", ".
Fragments ==
    << "You exceeded your current quota",
       "QuotaFailure",
       "429",
       "RATE_LIMIT_EXCEEDED",
       "401",
       "API_KEY_INVALID",
       "400",
       "content",
       "model",
       "not found",
       "free_tier",
       "generate_content_free_tier_requests",
       "PerMinute",
       "PerDay",
       "retryDelay: \"30s\"",
       "\"retryDelay\":\"7s\"",
       "requests per minute" >>

\* The fragments numbered by picks (an increasing sequence), joined.
JoinFragments(picks) ==
    LET joined[k \in 0..Len(picks)] ==
            IF k = 0 THEN ""
            ELSE IF k = 1 THEN Fragments[picks[1]]
            ELSE joined[k - 1] \o ", " \o Fragments[picks[k]]
    IN  joined[Len(picks)]

Messages ==
    { JoinFragments(picks) :
        picks \in { q \in UNION { [ 1..n -> 1..Len(Fragments) ] :
                                    n \in 0..MaxFragments } :
                      \A k \in 1..(Len(q) - 1) : q[k] < q[k + 1] } }

\* The messages that differ from m in letter case only, as far as tried.
CaseVariants(m) == { m, ToLowerCase(m), ToUpperCase(m) }

NoClassification ==
    [ type |-> "", message |-> "", suggestions |-> << >>,
      retryAfter |-> Undefined ]

(***************************************************************************)
(* Program constants.                                                      *)
(***************************************************************************)
maxRetries  == 2     \* generateWithRetry's default parameter
DefaultWait == 60    \* errorInfo.retryAfter || 60

ReportFiles == { "report.json", "report.md", "report.html" }

(***************************************************************************)
(* Pure helpers of the run.                                                *)
(***************************************************************************)
Last(seq) == seq[Len(seq)]

\* Node's filesystem errors: "<CODE>: <text>, <syscall> '<path>'".
FsError(dir, code, syscall, path) ==
    [ name    |-> "Error",
      message |-> code \o ", " \o syscall \o " '" \o dir \o path \o "'" ]

UserExitError(message) == [ name |-> "UserExitError", message |-> message ]

\* new GeminiClient(config): the key is handed to the SDK at construction.
GeminiClient(cfg) == [ apiKey |-> cfg.apiKey, model |-> cfg.model ]

\* createAnalysisPrompt(files, config), as far as the run is concerned: which
\* scan it serialises and which template it ends with.
createAnalysisPrompt(fileSet, cfg, build) ==
    [ build     |-> build,
      files     |-> fileSet,
      modelType |-> cfg.modelType,
      enhanced  |-> cfg.modelType = "advanced" /\ cfg.enableAdvancedFeatures ]

\* Math.pow(2, attempt) * 1000 milliseconds, in seconds.
BackoffSeconds(n) == 2 ^ n

\* A generateWithRetry that retries whatever the classification.
ShouldAutoRetry_AnyKind(n, errorInfo) ==
    n # maxRetries

\* A generateWithRetry that retries rate_limit without counting attempts.
ShouldAutoRetry_WithoutBudget(n, errorInfo) ==
    errorInfo.type = "rate_limit"

\* generateWithRetry's decision after a failed call: wait and call again?
ShouldAutoRetry(n, errorInfo) ==
    n # maxRetries /\ errorInfo.type = "rate_limit"

\* extractDescription: the first line of the text that mentions purpose,
\* project or does, else the literal "AI-analyzed project".
extractDescription(analysis) ==
    IF analysis.hasDescription
    THEN [ src |-> analysis.src, id |-> analysis.id ]
    ELSE [ src |-> "default", id |-> 0 ]

\* generateBasicAnalysis(files): fixed template over the scanned files; its
\* "**Project Overview:**" line always mentions "project".
generateBasicAnalysis(fileSet) ==
    [ src |-> "fallback", id |-> fileSet, hasDescription |-> TRUE ]

generateReport(fileSet, geminiAnalysis, model, modelType) ==
    [ geminiSummary |-> geminiAnalysis,
      description   |-> extractDescription(geminiAnalysis),
      files         |-> fileSet,
      modelUsed     |-> model,
      modelType     |-> modelType ]

\* saveReport(report) on disk d when the step failAt fails ("none": no step
\* fails): ensureDir, then report.json, report.md, report.html in this order.
SaveSteps == << "mkdir", "report.json", "report.md", "report.html" >>
StepIndex(step) ==
    IF step = "none" THEN Len(SaveSteps) + 1
    ELSE CHOOSE k \in 1..Len(SaveSteps) : SaveSteps[k] = step
saveReport(d, rep, failAt) ==
    [ f \in ReportFiles |->
        IF StepIndex(f) < StepIndex(failAt) THEN rep ELSE d[f] ]
SaveError(dir, failAt) ==
    IF failAt = "mkdir"
    THEN FsError(dir, "EACCES: permission denied", "mkdir", "/.vibe-output")
    ELSE FsError(dir, "EACCES: permission denied", "open",
                 "/.vibe-output/" \o failAt)

\* Every message the environment above can put in an error, and its
\* classification, computed once: Classify(err) is parseGeminiError(err).
KnownMessages ==
    GatewayMessages
    \cup { "Max retries exceeded" }
    \cup { FsError(d, "ENOENT: no such file or directory", "stat",
                   "/notes.tmp").message : d \in WorkingDirs }
    \cup { SaveError(d, SaveSteps[k]).message :
             d \in WorkingDirs, k \in 1..Len(SaveSteps) }
ClassificationTable ==
    { << m, parseGeminiError([ name |-> "Error", message |-> m ]) >> :
        m \in KnownMessages }
Classify(err) ==
    IF err.message \in KnownMessages
    THEN (CHOOSE row \in ClassificationTable : row[1] = err.message)[2]
    ELSE parseGeminiError(err)

\* A top-level catch that ends every failed run with status 1.
ExitStatus_AlwaysFailure(err) == 1

\* handleAnalysis's catch: the process exit status for a thrown error.
ExitStatus(err) == IF err.name = "UserExitError" THEN 0 ELSE 1

\* A new-key branch that forgets to store the key it collected.
WithApiKey_KeepsOldKey(cfg, key) == cfg

\* A new-key branch that starts over from the default configuration.
WithApiKey_DefaultModel(cfg, key) ==
    [ model |-> "gemini-1.5-flash", apiKey |-> key,
      modelType |-> "standard", enableAdvancedFeatures |-> FALSE ]

\* config.apiKey = newKeyAnswer.apiKey
WithApiKey(cfg, key) == [ cfg EXCEPT !.apiKey = key ]

\* A catch block that offers the fallback / retry / exit prompt for every
\* classification.
CatchTarget_PromptsForEveryKind(err) ==
    IF err.name = "UserExitError" THEN "throw" ELSE "ask_action"

\* analyzeRepository's catch block: where control goes for a caught error.
CatchTarget(err) ==
    LET errorInfo == Classify(err)
    IN  IF err.name = "UserExitError" THEN "throw"
        ELSE IF errorInfo.type \in { "quota_exceeded", "rate_limit" }
        THEN "ask_action"
        ELSE IF errorInfo.type = "invalid_key" THEN "ask_key"
        ELSE "throw"

(***************************************************************************)
(* scanRepository (src/src/scanner.ts), its pure parts.  A tree entry is   *)
(* what the filesystem holds for one path glob lists: path, size, content, *)
(* whether stat succeeds (a dangling symlink or a file removed after the   *)
(* listing makes it fail) and whether readFile succeeds.                   *)
(***************************************************************************)
FileCap == 50              \* files.length < 50
OneMiB  == 1024 * 1024     \* stats.size > 1024 * 1024

IMPORTANT_EXTENSIONS ==
    { ".js", ".ts", ".jsx", ".tsx", ".vue", ".py", ".go", ".rs", ".java",
      ".json", ".md", ".yml", ".yaml", ".toml", ".config.js", ".config.ts" }

\* The last position of character c in s, 0 when it does not occur.
LastIndexOfChar(s, c) ==
    LET hits == { k \in 1..Len(s) : CharAt(s, k) = c }
    IN  IF hits = { } THEN 0 ELSE CHOOSE k \in hits : \A j \in hits : j <= k

\* path.extname: from the last "." of the last path segment, "" when that
\* segment has no "." or only a leading one.
extname(filePath) ==
    LET slash == LastIndexOfChar(filePath, "/")
        dot   == LastIndexOfChar(filePath, ".")
    IN  IF dot = 0 \/ dot <= slash + 1 THEN ""
        ELSE SubSeq(filePath, dot, Len(filePath))

\* const isImportant = ... (lines 62-66)
isImportant(filePath, extension) ==
    \/ extension \in IMPORTANT_EXTENSIONS
    \/ Includes(filePath, "package.json")
    \/ Includes(filePath, "README")
    \/ Includes(filePath, "config")

\* A size test that lets every file through.
TooLarge_Never(size) == FALSE

\* if (stats.size > 1024 * 1024) continue
TooLarge(size) == size > OneMiB

\* An inclusion test that applies the cap to important files as well.
MayInclude_CapForAll(important, count) == count < FileCap

\* if (isImportant || files.length < 50)
MayInclude(important, count) == important \/ count < FileCap

\* The comparator of files.sort: importance by extension, then size.
compare(left, right) ==
    LET aImportant == left.extension \in IMPORTANT_EXTENSIONS
        bImportant == right.extension \in IMPORTANT_EXTENSIONS
    IN  IF aImportant /\ ~ bImportant THEN -1
        ELSE IF ~ aImportant /\ bImportant THEN 1
        ELSE left.size - right.size

\* Array.prototype.sort with that comparator.  The sort is stable and the
\* comparator orders by (class, size), so the element at position k moves
\* behind the elements that compare smaller and the earlier ones that
\* compare equal.
SortFiles(seq) ==
    LET before(k) ==
            { j \in 1..Len(seq) :
                \/ compare(seq[j], seq[k]) < 0
                \/ (compare(seq[j], seq[k]) = 0 /\ j < k) }
        rank == [ k \in 1..Len(seq) |-> 1 + Cardinality(before(k)) ]
    IN  [ r \in 1..Len(seq) |->
            seq[CHOOSE k \in 1..Len(seq) : rank[k] = r] ]

\* The trees scanned: up to MaxSpecial of the special entries, in any order,
\* and either no filler or a block of FileCap small images among them.
TreeEntry(filePath, size, exists, readable) ==
    [ path |-> filePath, size |-> size, content |-> "// " \o filePath,
      exists |-> exists, readable |-> readable ]
Specials ==
    { TreeEntry("src/app.ts",    300,        TRUE,  TRUE),
      TreeEntry("README",        200,        TRUE,  TRUE),
      TreeEntry("notes.txt",     100,        TRUE,  TRUE),
      TreeEntry("dump.sql",      OneMiB,     TRUE,  TRUE),
      TreeEntry("src/bundle.js", OneMiB + 1, TRUE,  TRUE),
      TreeEntry("docs/link.md",  0,          FALSE, FALSE),
      TreeEntry("secret.json",   20,         TRUE,  FALSE) }
Filler(k) == TreeEntry("img/" \o ToString(k) \o ".png", 10 * k, TRUE, TRUE)
FillerCounts == { 0, FileCap }
SpecialSeqs ==
    { q \in UNION { [ 1..n -> Specials ] : n \in 0..MaxSpecial } :
        \A j, k \in 1..Len(q) : j # k => q[j] # q[k] }
Trees ==
    { SubSeq(x[1], 1, x[2]) \o [ k \in 1..x[3] |-> Filler(k) ]
                            \o SubSeq(x[1], x[2] + 1, Len(x[1])) :
        x \in { y \in SpecialSeqs \X (0..MaxSpecial) \X FillerCounts :
                  y[2] <= Len(y[1]) } }

(***************************************************************************)
(* What is computed from a scan result (src/src/quota-checker.ts,          *)
(* createAnalysisPrompt in src/src/analyzer.ts, src/src/report.ts,         *)
(* src/src/fallback-analyzer.ts).  A FileInfo is [path, extension, size,   *)
(* length, lines]: size is stats.size in bytes, length is content.length   *)
(* and lines is content.split("\n").length; the characters themselves are *)
(* not read by any of these functions.                                     *)
(***************************************************************************)
FileInfo(filePath, size, length, lines) ==
    [ path |-> filePath, extension |-> extname(filePath), size |-> size,
      length |-> length, lines |-> lines ]

\* Files a scan can return: sizes around the prompt's size limit, content
\* lengths around both tiers' slice lengths (a length is never more than the
\* size in bytes), and the names and extensions the fallback analyzer looks
\* for.
Samples ==
    << FileInfo("package.json",   600,   600,   30),
       FileInfo("next.config.js", 300,   300,   12),
       FileInfo("src/index.ts",   1200,  1200,  40),
       FileInfo("src/App.tsx",    1201,  1201,  41),
       FileInfo("app.py",         2000,  2000,  80),
       FileInfo("main.go",        2001,  2001,  81),
       FileInfo("docs/guide.md",  29999, 25000, 700),
       FileInfo("data/big.json",  30000, 30000, 1),
       FileInfo("data/huge.json", 30001, 30001, 1) >>
Module(k) ==
    FileInfo("lib/m" \o ToString(k) \o ".js", 100 + k, 100 + k, 10)
ModuleCounts == { 0, 11, 19 }

\* The scan results handed on: up to MaxPicked samples and 0, 11 or 19
\* modules (one short of a tier's file count: the modules are the smallest
\* files and come first), in the order in which scanRepository returns them.
ScanResults ==
    { SortFiles([ k \in 1..Len(x[1]) |-> Samples[x[1][k]] ]
                \o [ k \in 1..x[2] |-> Module(k) ]) :
        x \in { q \in UNION { [ 1..n -> 1..Len(Samples) ] :
                                n \in 0..MaxPicked } :
                  \A k \in 1..(Len(q) - 1) : q[k] < q[k + 1] }
              \X ModuleCounts }

NoPromptParts == [ total |-> -1, showing |-> -1, blocks |-> << >>,
                   tail |-> [ enhanced |-> FALSE, words |-> "" ] ]
NoReportStats == [ totalFiles |-> -1, totalLines |-> -1, structure |-> { } ]
NoBasicParts  == [ techStack |-> << >>, projectType |-> "" ]

promptOverhead == 1000
MaxContentPerFile == 2000

Min(a, b) == IF a <= b THEN a ELSE b

\* files.reduce((sum, file) => sum + Math.min(file.content.length, 2000), 0)
\* taken without a limit on what one file contributes.
TotalChars_Uncapped(fileSeq) ==
    LET sum[k \in 0..Len(fileSeq)] ==
            IF k = 0 THEN 0 ELSE sum[k - 1] + fileSeq[k].length
    IN  sum[Len(fileSeq)]

\* files.reduce((sum, file) => sum + Math.min(file.content.length, 2000), 0)
TotalChars(fileSeq) ==
    LET sum[k \in 0..Len(fileSeq)] ==
            IF k = 0 THEN 0
            ELSE sum[k - 1] + Min(fileSeq[k].length, MaxContentPerFile)
    IN  sum[Len(fileSeq)]

\* Math.ceil(n / d) for n >= 0 and d > 0.
Ceil(n, d) == (n + d - 1) \div d

estimateTokenUsage(fileSeq) ==
    Ceil(TotalChars(fileSeq) + promptOverhead, 4)

\* createAnalysisPrompt(files, config) in full.  The prompt is kept by its
\* parts: the two numbers of the "Files to analyze" line, one block per
\* listed file (its path, how many characters of content it carries and
\* whether "... (truncated)" follows them), and the closing instruction.
PromptSizeLimit == 30000

maxFiles(cfg) == IF cfg.modelType = "advanced" THEN 20 ELSE 12
maxContentLength(cfg) == IF cfg.modelType = "advanced" THEN 2000 ELSE 1200

\* .filter((f) => f.size < 30000)
FitsPrompt(file) == file.size < PromptSizeLimit

\* A block that carries the whole content.
FileBlock_Whole(file, cfg) ==
    [ path      |-> file.path,
      content   |-> file.length,
      truncated |-> file.length > maxContentLength(cfg) ]

\* .map((f) => ...): content.slice(0, maxContentLength) and the marker.
FileBlock(file, cfg) ==
    [ path      |-> file.path,
      content   |-> Min(file.length, maxContentLength(cfg)),
      truncated |-> file.length > maxContentLength(cfg) ]

\* files.filter(...).slice(0, maxFiles).map(...)
fileList(fileSeq, cfg) ==
    LET kept  == SelectSeq(fileSeq, FitsPrompt)
        shown == SubSeq(kept, 1, Min(maxFiles(cfg), Len(kept)))
    IN  [ k \in 1..Len(shown) |-> FileBlock(shown[k], cfg) ]

\* A closing instruction chosen by the tier alone.
ClosingInstruction_ByTierAlone(cfg) ==
    IF cfg.modelType = "advanced"
    THEN [ enhanced |-> TRUE,  words |-> "800-1200" ]
    ELSE [ enhanced |-> FALSE, words |-> "500-700" ]

\* if (config.modelType === "advanced" && config.enableAdvancedFeatures)
\* the ENHANCED ANALYSIS MODE block, else the concise line.
ClosingInstruction(cfg) ==
    IF cfg.modelType = "advanced" /\ cfg.enableAdvancedFeatures
    THEN [ enhanced |-> TRUE,  words |-> "800-1200" ]
    ELSE [ enhanced |-> FALSE, words |-> "500-700" ]

createAnalysisPromptParts(fileSeq, cfg) ==
    [ total   |-> Len(fileSeq),
      showing |-> Min(maxFiles(cfg), Len(fileSeq)),
      blocks  |-> fileList(fileSeq, cfg),
      tail    |-> ClosingInstruction(cfg) ]


\* generateReport(files, ...), the parts computed from the file list alone:
\* totalFiles, totalLines and generateStructure(files).  The structure text
\* has one section per directory; a section is kept as [dir, shown, more]:
\* the first five base names, and how many further files the line
\* "... and N more files" stands for.  The order of the sections is left
\* out.
ShownPerDirectory == 5

\* path.dirname and path.basename of a relative POSIX path.
dirname(filePath) ==
    LET slash == LastIndexOfChar(filePath, "/")
    IN  IF slash = 0 THEN "." ELSE SubSeq(filePath, 1, slash - 1)
basename(filePath) ==
    SubSeq(filePath, LastIndexOfChar(filePath, "/") + 1, Len(filePath))

generateStructure(fileSeq) ==
    LET dirs == { dirname(fileSeq[k].path) : k \in 1..Len(fileSeq) }
        InDir(dir) ==
            LET here(file) == dirname(file.path) = dir
                members == SelectSeq(fileSeq, here)
            IN  [ k \in 1..Len(members) |-> basename(members[k].path) ]
    IN  { [ dir   |-> dir,
            shown |-> SubSeq(InDir(dir), 1,
                             Min(ShownPerDirectory, Len(InDir(dir)))),
            more  |-> IF Len(InDir(dir)) > ShownPerDirectory
                      THEN Len(InDir(dir)) - ShownPerDirectory ELSE 0 ] :
          dir \in dirs }

\* files.reduce((sum, file) => sum + file.content.split("\n").length, 0)
totalLines(fileSeq) ==
    LET sum[k \in 0..Len(fileSeq)] ==
            IF k = 0 THEN 0 ELSE sum[k - 1] + fileSeq[k].lines
    IN  sum[Len(fileSeq)]

generateReportStats(fileSeq) ==
    [ totalFiles |-> Len(fileSeq),
      totalLines |-> totalLines(fileSeq),
      structure  |-> generateStructure(fileSeq) ]


\* generateBasicAnalysis(files): the technology stack it detects and the
\* project type it prints (src/src/fallback-analyzer.ts).
HasPath(fileSeq, part) ==
    \E k \in 1..Len(fileSeq) : Includes(fileSeq[k].path, part)
HasExtension(fileSeq, extensions) ==
    \E k \in 1..Len(fileSeq) : fileSeq[k].extension \in extensions

\* A detection that does not look for Go sources.
techStack_WithoutGo(fileSeq) ==
    PushIf(HasPath(fileSeq, "package.json"), << "Node.js/JavaScript" >>)
    \o PushIf(HasExtension(fileSeq, { ".tsx", ".jsx" }), << "React" >>)
    \o PushIf(HasExtension(fileSeq, { ".ts" }), << "TypeScript" >>)
    \o PushIf(HasPath(fileSeq, "next.config"), << "Next.js" >>)
    \o PushIf(HasPath(fileSeq, "tailwind"), << "Tailwind CSS" >>)
    \o PushIf(HasExtension(fileSeq, { ".py" }), << "Python" >>)

techStack(fileSeq) ==
    PushIf(HasPath(fileSeq, "package.json"), << "Node.js/JavaScript" >>)
    \o PushIf(HasExtension(fileSeq, { ".tsx", ".jsx" }), << "React" >>)
    \o PushIf(HasExtension(fileSeq, { ".ts" }), << "TypeScript" >>)
    \o PushIf(HasPath(fileSeq, "next.config"), << "Next.js" >>)
    \o PushIf(HasPath(fileSeq, "tailwind"), << "Tailwind CSS" >>)
    \o PushIf(HasExtension(fileSeq, { ".py" }), << "Python" >>)
    \o PushIf(HasExtension(fileSeq, { ".go" }), << "Go" >>)

\* techStack.includes(tech)
Listed(stack, tech) == \E k \in 1..Len(stack) : stack[k] = tech

\* A guess that looks for React before Next.js.
guessProjectType_ReactFirst(fileSeq, stack) ==
    IF Listed(stack, "React") THEN "React application"
    ELSE IF Listed(stack, "Next.js") THEN "Next.js web application"
    ELSE IF HasPath(fileSeq, "package.json") THEN "Node.js application"
    ELSE IF Listed(stack, "Python") THEN "Python application"
    ELSE IF Listed(stack, "Go") THEN "Go application"
    ELSE "software"

guessProjectType(fileSeq, stack) ==
    IF Listed(stack, "Next.js") THEN "Next.js web application"
    ELSE IF Listed(stack, "React") THEN "React application"
    ELSE IF HasPath(fileSeq, "package.json") THEN "Node.js application"
    ELSE IF Listed(stack, "Python") THEN "Python application"
    ELSE IF Listed(stack, "Go") THEN "Go application"
    ELSE "software"

generateBasicAnalysisParts(fileSeq) ==
    [ techStack   |-> techStack(fileSeq),
      projectType |-> guessProjectType(fileSeq, techStack(fileSeq)) ]


(***************************************************************************)
(* State.                                                                  *)
(***************************************************************************)
VARIABLES
    pc,             \* where the run is
    cwd,            \* process.cwd()
    config,         \* the GeminiConfig object shared by every pass
    client,         \* the pass's GeminiClient
    files,          \* the pass's scan result (the number of the scan, 0: none)
    prompt,         \* the pass's prompt
    attempt,        \* generateWithRetry's loop variable
    analysis,       \* the analysis text of the pass
    error,          \* the error being thrown or handled
    raisedBy,       \* which operation raised it
    waitTime,       \* the countdown's waitTime
    i,              \* the countdown's loop variable
    depth,          \* nested analyzeRepository calls on the stack
    report,         \* the ProjectReport returned to handleAnalysis
    disk,           \* what each report file holds that this run wrote
    runResult,      \* how analyzeRepository ended for handleAnalysis
    exitStatus,     \* process.exit's status, -1 while the process runs
    \* history, read by the properties only
    gwLog,          \* one record per Gateway call
    backoffs,       \* seconds of each automatic backoff wait
    promptsShown,   \* interactive prompts shown
    scans,          \* scanRepository calls
    promptBuilds,   \* createAnalysisPrompt calls
    assembled,      \* generateReport calls
    saves,          \* saveReport calls
    fallbackChosen, \* the user answered "fallback"
    declined,       \* the user declined to enter a new key
    exitChosen,     \* the user answered "exit"
    choiceAt,       \* Gateway calls and scans made when the user chose
                    \* fallback, exit or no new key
    keysTyped,      \* keys entered at the new-key prompt, in order
    reentries,      \* user-chosen re-entries of analyzeRepository
    passEntry,      \* how the current pass was entered
    configAtRetry,  \* the configuration when wait-and-retry was chosen
    elapsed,        \* seconds slept by the current or last countdown
    \* the classifier called on its own
    rawMessage,     \* error.message
    caseVariant,    \* a message that differs from it in letter case only
    classified,     \* parseGeminiError has returned
    classification, \* its result for rawMessage
    variantClassification,  \* its result for caseVariant
    \* scanRepository called on its own
    scanPc,         \* where scanRepository is
    tree,           \* the files under cwd, in glob's order
    allFiles,       \* glob's result
    cursor,         \* the position of the for loop in allFiles
    fileInfos,      \* the local array files, the result once returned
    scanError,      \* which call rejected: "glob", "stat" or "none"
    visitLog,       \* history: what the loop did with each file it visited
    \* the functions of a scan result called on their own
    stage,          \* which of them have returned
    scanned,        \* the scan result
    chosen,         \* the GeminiConfig
    estimatedTokens,    \* checkQuotaLimits' estimate, -1 before
    promptParts,    \* what createAnalysisPrompt put into the prompt
    reportStats,    \* generateReport's counts and structure
    basicParts      \* generateBasicAnalysis' findings

vars ==
    << pc, cwd, config, client, files, prompt, attempt, analysis, error,
       raisedBy, waitTime, i, depth, report, disk, runResult, exitStatus,
       gwLog, backoffs, promptsShown, scans, promptBuilds, assembled,
       saves, fallbackChosen, declined, exitChosen, choiceAt, keysTyped,
       reentries, passEntry, configAtRetry, elapsed, rawMessage,
       caseVariant, classified, classification, variantClassification,
       scanPc, tree, allFiles, cursor, fileInfos, scanError, visitLog,
       stage, scanned, chosen, estimatedTokens, promptParts, reportStats,
       basicParts >>

\* The state when handleAnalysis has obtained the configuration from
\* getGeminiConfig.
\* The classifier is not being exercised.
ClassifierIdle ==
    /\ rawMessage = ""
    /\ caseVariant = ""
    /\ classified = FALSE
    /\ classification = NoClassification
    /\ variantClassification = NoClassification

\* No run of handleAnalysis is under way.
RunIdle ==
    /\ pc = "off"
    /\ cwd = "/work/app"
    /\ config = CHOOSE cfg \in Configs : cfg.modelType = "standard"
    /\ client = NoClient
    /\ files = 0
    /\ prompt = NoPrompt
    /\ attempt = 0
    /\ analysis = NoText
    /\ error = NoError
    /\ raisedBy = "none"
    /\ waitTime = 0
    /\ i = 0
    /\ depth = 0
    /\ report = NoReport
    /\ disk = [ f \in ReportFiles |-> NoReport ]
    /\ runResult = "none"
    /\ exitStatus = -1
    /\ gwLog = << >>
    /\ backoffs = << >>
    /\ promptsShown = 0
    /\ scans = 0
    /\ promptBuilds = 0
    /\ assembled = 0
    /\ saves = 0
    /\ fallbackChosen = FALSE
    /\ declined = FALSE
    /\ exitChosen = FALSE
    /\ choiceAt = [ calls |-> 0, scans |-> 0 ]
    /\ keysTyped = << >>
    /\ reentries = 0
    /\ passEntry = "initial"
    /\ configAtRetry = config
    /\ elapsed = 0

\* scanRepository is not being exercised.
ScannerIdle ==
    /\ scanPc = "idle"
    /\ tree = << >>
    /\ allFiles = << >>
    /\ cursor = 0
    /\ fileInfos = << >>
    /\ scanError = "none"
    /\ visitLog = << >>

\* The functions of a scan result are not being exercised.
FileListIdle ==
    /\ stage = "idle"
    /\ scanned = << >>
    /\ chosen = [ model |-> "gemini-1.5-flash", apiKey |-> InitialApiKey,
                  modelType |-> "standard", enableAdvancedFeatures |-> FALSE ]
    /\ estimatedTokens = -1
    /\ promptParts = NoPromptParts
    /\ reportStats = NoReportStats
    /\ basicParts = NoBasicParts

Init ==
    /\ ClassifierIdle
    /\ ScannerIdle
    /\ FileListIdle
    /\ pc = "start"
    /\ cwd \in WorkingDirs
    /\ config \in Configs
    /\ client = NoClient
    /\ files = 0
    /\ prompt = NoPrompt
    /\ attempt = 0
    /\ analysis = NoText
    /\ error = NoError
    /\ raisedBy = "none"
    /\ waitTime = 0
    /\ i = 0
    /\ depth = 0
    /\ report = NoReport
    /\ disk = [ f \in ReportFiles |-> NoReport ]
    /\ runResult = "none"
    /\ exitStatus = -1
    /\ gwLog = << >>
    /\ backoffs = << >>
    /\ promptsShown = 0
    /\ scans = 0
    /\ promptBuilds = 0
    /\ assembled = 0
    /\ saves = 0
    /\ fallbackChosen = FALSE
    /\ declined = FALSE
    /\ exitChosen = FALSE
    /\ choiceAt = [ calls |-> 0, scans |-> 0 ]
    /\ keysTyped = << >>
    /\ reentries = 0
    /\ passEntry = "initial"
    /\ configAtRetry = config
    /\ elapsed = 0

(***************************************************************************)
(* handleAnalysis (src/src/index.ts).                                      *)
(***************************************************************************)
\* ensureOutputDir(), then the call of analyzeRepository(config).
HandleAnalysisStart ==
    /\ pc = "start"
    /\ \/ /\ pc' = "scan"
          /\ depth' = 1
          /\ UNCHANGED << error, raisedBy >>
       \/ /\ pc' = "top"
          /\ error' = FsError(cwd, "EACCES: permission denied", "mkdir",
                              "/.vibe-output")
          /\ raisedBy' = "setup"
          /\ UNCHANGED depth
    /\ UNCHANGED << cwd, config, client, files, prompt, attempt, analysis,
                    waitTime, i, report, disk, runResult, exitStatus, gwLog,
                    backoffs, promptsShown, scans, promptBuilds, assembled,
                    saves, fallbackChosen, declined, exitChosen, choiceAt,
                    keysTyped, reentries, passEntry, configAtRetry, elapsed,
                    rawMessage, caseVariant, classified, classification,
                    variantClassification, scanPc, tree, allFiles, cursor,
                    fileInfos, scanError, visitLog, stage, scanned, chosen,
                    estimatedTokens, promptParts, reportStats, basicParts >>

\* startServer(report, port) after analyzeRepository returned.
StartServer ==
    /\ pc = "server"
    /\ \/ /\ pc' = "serving"
          /\ UNCHANGED << error, raisedBy >>
       \/ /\ pc' = "top"
          /\ error' = [ name |-> "Error",
                        message |-> "listen EADDRINUSE: address already in use" ]
          /\ raisedBy' = "server"
    /\ UNCHANGED << cwd, config, client, files, prompt, attempt, analysis,
                    waitTime, i, depth, report, disk, runResult, exitStatus,
                    gwLog, backoffs, promptsShown, scans, promptBuilds,
                    assembled, saves, fallbackChosen, declined, exitChosen,
                    choiceAt, keysTyped, reentries, passEntry, configAtRetry,
                    elapsed, rawMessage, caseVariant, classified,
                    classification, variantClassification, scanPc, tree,
                    allFiles, cursor, fileInfos, scanError, visitLog, stage,
                    scanned, chosen, estimatedTokens, promptParts,
                    reportStats, basicParts >>

\* The catch block: exit 0 for a user exit, exit 1 for anything else.
TopLevelCatch ==
    /\ pc = "top"
    /\ pc' = "exited"
    /\ exitStatus' = ExitStatus(error)
    /\ UNCHANGED << cwd, config, client, files, prompt, attempt, analysis,
                    error, raisedBy, waitTime, i, depth, report, disk,
                    runResult, gwLog, backoffs, promptsShown, scans,
                    promptBuilds, assembled, saves, fallbackChosen, declined,
                    exitChosen, choiceAt, keysTyped, reentries, passEntry,
                    configAtRetry, elapsed, rawMessage, caseVariant,
                    classified, classification, variantClassification, scanPc,
                    tree, allFiles, cursor, fileInfos, scanError, visitLog,
                    stage, scanned, chosen, estimatedTokens, promptParts,
                    reportStats, basicParts >>

(***************************************************************************)
(* analyzeRepository, the try block (src/src/analyzer.ts lines 22-57).     *)
(***************************************************************************)
\* const files = await scanRepository(): the scan returns, or the listing or
\* a stat rejects (scanner.ts awaits both outside any try).
Scan ==
    /\ pc = "scan"
    /\ scans' = scans + 1
    /\ \/ /\ files' = scans + 1
          /\ pc' = "prompt"
          /\ UNCHANGED << error, raisedBy >>
       \/ /\ error' = FsError(cwd, "ENOENT: no such file or directory", "stat",
                              "/notes.tmp")
          /\ raisedBy' = "scan"
          /\ pc' = "catch"
          /\ UNCHANGED files
    /\ UNCHANGED << cwd, config, client, prompt, attempt, analysis, waitTime,
                    i, depth, report, disk, runResult, exitStatus, gwLog,
                    backoffs, promptsShown, promptBuilds, assembled, saves,
                    fallbackChosen, declined, exitChosen, choiceAt, keysTyped,
                    reentries, passEntry, configAtRetry, elapsed, rawMessage,
                    caseVariant, classified, classification,
                    variantClassification, scanPc, tree, allFiles, cursor,
                    fileInfos, scanError, visitLog, stage, scanned, chosen,
                    estimatedTokens, promptParts, reportStats, basicParts >>

\* A pass whose attempt counter goes on from the calls the run has already
\* made: one budget for the whole run.
BuildPrompt_ContinuingAttempts ==
    /\ pc = "prompt"
    /\ client' = GeminiClient(config)
    /\ promptBuilds' = promptBuilds + 1
    /\ prompt' = createAnalysisPrompt(files, config, promptBuilds + 1)
    /\ attempt' = Len(gwLog) + 1
    /\ pc' = "call"
    /\ UNCHANGED << cwd, config, files, analysis, error, raisedBy, waitTime,
                    i, depth, report, disk, runResult, exitStatus, gwLog,
                    backoffs, promptsShown, scans, assembled, saves,
                    fallbackChosen, declined, exitChosen, choiceAt, keysTyped,
                    reentries, passEntry, configAtRetry, elapsed, rawMessage,
                    caseVariant, classified, classification,
                    variantClassification, scanPc, tree, allFiles, cursor,
                    fileInfos, scanError, visitLog, stage, scanned, chosen,
                    estimatedTokens, promptParts, reportStats, basicParts >>

\* checkQuotaLimits, new GeminiClient(config), createAnalysisPrompt, and the
\* entry of generateWithRetry (attempt = 1).
BuildPrompt ==
    /\ pc = "prompt"
    /\ client' = GeminiClient(config)
    /\ promptBuilds' = promptBuilds + 1
    /\ prompt' = createAnalysisPrompt(files, config, promptBuilds + 1)
    /\ attempt' = 1
    /\ pc' = "call"
    /\ UNCHANGED << cwd, config, files, analysis, error, raisedBy, waitTime,
                    i, depth, report, disk, runResult, exitStatus, gwLog,
                    backoffs, promptsShown, scans, assembled, saves,
                    fallbackChosen, declined, exitChosen, choiceAt, keysTyped,
                    reentries, passEntry, configAtRetry, elapsed, rawMessage,
                    caseVariant, classified, classification,
                    variantClassification, scanPc, tree, allFiles, cursor,
                    fileInfos, scanError, visitLog, stage, scanned, chosen,
                    estimatedTokens, promptParts, reportStats, basicParts >>

\* What the history keeps of one client.generateContent(prompt) call.
CallRecord(ok, message) ==
    [ ok      |-> ok,
      message |-> message,
      key     |-> client.apiKey,
      cfg     |-> config,
      prompt  |-> prompt.build,
      files   |-> prompt.files,
      attempt |-> attempt,
      pass    |-> reentries,
      typed   |-> Len(keysTyped),
      waits   |-> Len(backoffs),
      prompts |-> promptsShown,
      scans   |-> scans ]

\* return await client.generateContent(prompt): the provider answers.
GatewaySucceeds ==
    /\ pc = "call"
    /\ \E hasDescription \in BOOLEAN :
          analysis' = [ src |-> "gemini", id |-> Len(gwLog) + 1,
                        hasDescription |-> hasDescription ]
    /\ gwLog' = Append(gwLog, CallRecord(TRUE, ""))
    /\ pc' = "report"
    /\ UNCHANGED << cwd, config, client, files, prompt, attempt, error,
                    raisedBy, waitTime, i, depth, report, disk, runResult,
                    exitStatus, backoffs, promptsShown, scans, promptBuilds,
                    assembled, saves, fallbackChosen, declined, exitChosen,
                    choiceAt, keysTyped, reentries, passEntry, configAtRetry,
                    elapsed, rawMessage, caseVariant, classified,
                    classification, variantClassification, scanPc, tree,
                    allFiles, cursor, fileInfos, scanError, visitLog, stage,
                    scanned, chosen, estimatedTokens, promptParts,
                    reportStats, basicParts >>

\* client.generateContent(prompt) rejects, and generateWithRetry's catch
\* decides: rethrow, or wait and go round the loop.
GatewayFails ==
    /\ pc = "call"
    /\ \E message \in GatewayMessages :
          LET e == [ name |-> "Error", message |-> message ]
          IN  /\ gwLog' = Append(gwLog, CallRecord(FALSE, message))
              /\ error' = e
              /\ raisedBy' = "gateway"
              /\ pc' = IF ShouldAutoRetry(attempt, Classify(e))
                       THEN "backoff" ELSE "catch"
    /\ UNCHANGED << cwd, config, client, files, prompt, attempt, analysis,
                    waitTime, i, depth, report, disk, runResult, exitStatus,
                    backoffs, promptsShown, scans, promptBuilds, assembled,
                    saves, fallbackChosen, declined, exitChosen, choiceAt,
                    keysTyped, reentries, passEntry, configAtRetry, elapsed,
                    rawMessage, caseVariant, classified, classification,
                    variantClassification, scanPc, tree, allFiles, cursor,
                    fileInfos, scanError, visitLog, stage, scanned, chosen,
                    estimatedTokens, promptParts, reportStats, basicParts >>

\* await new Promise(resolve => setTimeout(resolve, waitTime)), attempt++ and
\* the loop test; the throw after the loop when the test fails.
BackoffWait ==
    /\ pc = "backoff"
    /\ backoffs' = Append(backoffs, BackoffSeconds(attempt))
    /\ attempt' = attempt + 1
    /\ IF attempt + 1 <= maxRetries
       THEN /\ pc' = "call"
            /\ error' = NoError
            /\ raisedBy' = "none"
       ELSE /\ pc' = "catch"
            /\ error' = [ name |-> "Error", message |-> "Max retries exceeded" ]
            /\ raisedBy' = "loop"
    /\ UNCHANGED << cwd, config, client, files, prompt, analysis, waitTime, i,
                    depth, report, disk, runResult, exitStatus, gwLog,
                    promptsShown, scans, promptBuilds, assembled, saves,
                    fallbackChosen, declined, exitChosen, choiceAt, keysTyped,
                    reentries, passEntry, configAtRetry, elapsed, rawMessage,
                    caseVariant, classified, classification,
                    variantClassification, scanPc, tree, allFiles, cursor,
                    fileInfos, scanError, visitLog, stage, scanned, chosen,
                    estimatedTokens, promptParts, reportStats, basicParts >>

\* generateReport, saveReport and the return of the report; saveReport may
\* reject at any of its four steps.
AssembleAndSave ==
    /\ pc = "report"
    /\ assembled' = assembled + 1
    /\ saves' = saves + 1
    /\ LET rep == generateReport(files, analysis, config.model, config.modelType)
       IN  \/ /\ disk' = saveReport(disk, rep, "none")
              /\ report' = rep
              /\ runResult' = "success"
              /\ pc' = "server"
              /\ UNCHANGED << error, raisedBy >>
           \/ \E failAt \in { SaveSteps[k] : k \in 1..Len(SaveSteps) } :
              /\ disk' = saveReport(disk, rep, failAt)
              /\ error' = SaveError(cwd, failAt)
              /\ raisedBy' = "save"
              /\ pc' = "catch"
              /\ UNCHANGED << report, runResult >>
    /\ UNCHANGED << cwd, config, client, files, prompt, attempt, analysis,
                    waitTime, i, depth, exitStatus, gwLog, backoffs,
                    promptsShown, scans, promptBuilds, fallbackChosen,
                    declined, exitChosen, choiceAt, keysTyped, reentries,
                    passEntry, configAtRetry, elapsed, rawMessage,
                    caseVariant, classified, classification,
                    variantClassification, scanPc, tree, allFiles, cursor,
                    fileInfos, scanError, visitLog, stage, scanned, chosen,
                    estimatedTokens, promptParts, reportStats, basicParts >>

(***************************************************************************)
(* analyzeRepository, the catch block (src/src/analyzer.ts lines 58-151).  *)
(* A throw inside the catch block, the recursive calls included, leaves    *)
(* analyzeRepository for good: no enclosing pass catches it.               *)
(***************************************************************************)
\* spinner.fail, the UserExitError test, parseGeminiError, displayError, and
\* the prompt of the branch taken; throw error for the kinds with no branch.
Catch ==
    /\ pc = "catch"
    /\ LET target == CatchTarget(error)
       IN  IF target = "throw"
           THEN /\ pc' = "top"
                /\ runResult' = IF error.name = "UserExitError"
                                THEN "userExit" ELSE "fatal"
                /\ UNCHANGED promptsShown
           ELSE /\ pc' = target
                /\ promptsShown' = promptsShown + 1
                /\ UNCHANGED runResult
    /\ UNCHANGED << cwd, config, client, files, prompt, attempt, analysis,
                    error, raisedBy, waitTime, i, depth, report, disk,
                    exitStatus, gwLog, backoffs, scans, promptBuilds,
                    assembled, saves, fallbackChosen, declined, exitChosen,
                    choiceAt, keysTyped, reentries, passEntry, configAtRetry,
                    elapsed, rawMessage, caseVariant, classified,
                    classification, variantClassification, scanPc, tree,
                    allFiles, cursor, fileInfos, scanError, visitLog, stage,
                    scanned, chosen, estimatedTokens, promptParts,
                    reportStats, basicParts >>

\* A fallback branch that runs the AI pass again instead of analyzeFallback.
ChooseFallback_ThroughGateway ==
    /\ pc = "ask_action"
    /\ fallbackChosen' = TRUE
    /\ choiceAt' = [ calls |-> Len(gwLog), scans |-> scans ]
    /\ pc' = "scan"
    /\ UNCHANGED << cwd, config, client, files, prompt, attempt, analysis,
                    error, raisedBy, waitTime, i, depth, report, disk,
                    runResult, exitStatus, gwLog, backoffs, promptsShown,
                    scans, promptBuilds, assembled, saves, declined,
                    exitChosen, keysTyped, reentries, passEntry,
                    configAtRetry, elapsed, rawMessage, caseVariant,
                    classified, classification, variantClassification, scanPc,
                    tree, allFiles, cursor, fileInfos, scanError, visitLog,
                    stage, scanned, chosen, estimatedTokens, promptParts,
                    reportStats, basicParts >>

\* fallbackAnswer.action === "fallback": return await analyzeFallback()
ChooseFallback ==
    /\ pc = "ask_action"
    /\ fallbackChosen' = TRUE
    /\ choiceAt' = [ calls |-> Len(gwLog), scans |-> scans ]
    /\ pc' = "fb_scan"
    /\ UNCHANGED << cwd, config, client, files, prompt, attempt, analysis,
                    error, raisedBy, waitTime, i, depth, report, disk,
                    runResult, exitStatus, gwLog, backoffs, promptsShown,
                    scans, promptBuilds, assembled, saves, declined,
                    exitChosen, keysTyped, reentries, passEntry,
                    configAtRetry, elapsed, rawMessage, caseVariant,
                    classified, classification, variantClassification, scanPc,
                    tree, allFiles, cursor, fileInfos, scanError, visitLog,
                    stage, scanned, chosen, estimatedTokens, promptParts,
                    reportStats, basicParts >>

\* fallbackAnswer.action === "retry": waitTime and the countdown's i = waitTime
ChooseRetry ==
    /\ pc = "ask_action"
    /\ reentries < MaxReentries
    /\ waitTime' = OrDefault(Classify(error).retryAfter, DefaultWait)
    /\ i' = waitTime'
    /\ elapsed' = 0
    /\ configAtRetry' = config
    /\ pc' = "countdown"
    /\ UNCHANGED << cwd, config, client, files, prompt, attempt, analysis,
                    error, raisedBy, depth, report, disk, runResult,
                    exitStatus, gwLog, backoffs, promptsShown, scans,
                    promptBuilds, assembled, saves, fallbackChosen, declined,
                    exitChosen, choiceAt, keysTyped, reentries, passEntry,
                    rawMessage, caseVariant, classified, classification,
                    variantClassification, scanPc, tree, allFiles, cursor,
                    fileInfos, scanError, visitLog, stage, scanned, chosen,
                    estimatedTokens, promptParts, reportStats, basicParts >>

\* One round of the countdown loop: a one-second sleep, then i--.
CountdownTick ==
    /\ pc = "countdown"
    /\ i > 0
    /\ elapsed' = elapsed + 1
    /\ i' = i - 1
    /\ UNCHANGED << pc, cwd, config, client, files, prompt, attempt, analysis,
                    error, raisedBy, waitTime, depth, report, disk, runResult,
                    exitStatus, gwLog, backoffs, promptsShown, scans,
                    promptBuilds, assembled, saves, fallbackChosen, declined,
                    exitChosen, choiceAt, keysTyped, reentries, passEntry,
                    configAtRetry, rawMessage, caseVariant, classified,
                    classification, variantClassification, scanPc, tree,
                    allFiles, cursor, fileInfos, scanError, visitLog, stage,
                    scanned, chosen, estimatedTokens, promptParts,
                    reportStats, basicParts >>

\* A wait-and-retry that goes back to the Gateway call with the prompt it
\* already has, without a new scan.
RetryAfterCountdown_ReusingPrompt ==
    /\ pc = "countdown"
    /\ ~ (i > 0)
    /\ pc' = "call"
    /\ depth' = depth + 1
    /\ reentries' = reentries + 1
    /\ passEntry' = "wait"
    /\ error' = NoError
    /\ raisedBy' = "none"
    /\ attempt' = 1
    /\ UNCHANGED << cwd, config, client, files, prompt, analysis, waitTime, i,
                    report, disk, runResult, exitStatus, gwLog, backoffs,
                    promptsShown, scans, promptBuilds, assembled, saves,
                    fallbackChosen, declined, exitChosen, choiceAt, keysTyped,
                    configAtRetry, elapsed, rawMessage, caseVariant,
                    classified, classification, variantClassification, scanPc,
                    tree, allFiles, cursor, fileInfos, scanError, visitLog,
                    stage, scanned, chosen, estimatedTokens, promptParts,
                    reportStats, basicParts >>

\* The loop ends: return await analyzeRepository(config), a new pass.
RetryAfterCountdown ==
    /\ pc = "countdown"
    /\ ~ (i > 0)
    /\ pc' = "scan"
    /\ depth' = depth + 1
    /\ reentries' = reentries + 1
    /\ passEntry' = "wait"
    /\ error' = NoError
    /\ raisedBy' = "none"
    /\ client' = NoClient
    /\ files' = 0
    /\ prompt' = NoPrompt
    /\ attempt' = 0
    /\ analysis' = NoText
    /\ UNCHANGED << cwd, config, waitTime, i, report, disk, runResult,
                    exitStatus, gwLog, backoffs, promptsShown, scans,
                    promptBuilds, assembled, saves, fallbackChosen, declined,
                    exitChosen, choiceAt, keysTyped, configAtRetry, elapsed,
                    rawMessage, caseVariant, classified, classification,
                    variantClassification, scanPc, tree, allFiles, cursor,
                    fileInfos, scanError, visitLog, stage, scanned, chosen,
                    estimatedTokens, promptParts, reportStats, basicParts >>

\* fallbackAnswer.action === "exit": throw new UserExitError(...)
ChooseExit ==
    /\ pc = "ask_action"
    /\ exitChosen' = TRUE
    /\ choiceAt' = [ calls |-> Len(gwLog), scans |-> scans ]
    /\ error' = UserExitError("User chose to exit")
    /\ raisedBy' = "user"
    /\ runResult' = "userExit"
    /\ pc' = "top"
    /\ UNCHANGED << cwd, config, client, files, prompt, attempt, analysis,
                    waitTime, i, depth, report, disk, exitStatus, gwLog,
                    backoffs, promptsShown, scans, promptBuilds, assembled,
                    saves, fallbackChosen, declined, keysTyped, reentries,
                    passEntry, configAtRetry, elapsed, rawMessage,
                    caseVariant, classified, classification,
                    variantClassification, scanPc, tree, allFiles, cursor,
                    fileInfos, scanError, visitLog, stage, scanned, chosen,
                    estimatedTokens, promptParts, reportStats, basicParts >>

\* keyAnswer.retryWithNewKey is true: the password prompt is shown.
ConfirmNewKey ==
    /\ pc = "ask_key"
    /\ reentries < MaxReentries
    /\ promptsShown' = promptsShown + 1
    /\ pc' = "enter_key"
    /\ UNCHANGED << cwd, config, client, files, prompt, attempt, analysis,
                    error, raisedBy, waitTime, i, depth, report, disk,
                    runResult, exitStatus, gwLog, backoffs, scans,
                    promptBuilds, assembled, saves, fallbackChosen, declined,
                    exitChosen, choiceAt, keysTyped, reentries, passEntry,
                    configAtRetry, elapsed, rawMessage, caseVariant,
                    classified, classification, variantClassification, scanPc,
                    tree, allFiles, cursor, fileInfos, scanError, visitLog,
                    stage, scanned, chosen, estimatedTokens, promptParts,
                    reportStats, basicParts >>

\* config.apiKey = newKeyAnswer.apiKey; return await analyzeRepository(config)
EnterNewKey ==
    /\ pc = "enter_key"
    /\ \E key \in TypedKeys :
          /\ config' = WithApiKey(config, key)
          /\ keysTyped' = Append(keysTyped, key)
    /\ pc' = "scan"
    /\ depth' = depth + 1
    /\ reentries' = reentries + 1
    /\ passEntry' = "newkey"
    /\ error' = NoError
    /\ raisedBy' = "none"
    /\ client' = NoClient
    /\ files' = 0
    /\ prompt' = NoPrompt
    /\ attempt' = 0
    /\ analysis' = NoText
    /\ UNCHANGED << cwd, waitTime, i, report, disk, runResult, exitStatus,
                    gwLog, backoffs, promptsShown, scans, promptBuilds,
                    assembled, saves, fallbackChosen, declined, exitChosen,
                    choiceAt, configAtRetry, elapsed, rawMessage, caseVariant,
                    classified, classification, variantClassification, scanPc,
                    tree, allFiles, cursor, fileInfos, scanError, visitLog,
                    stage, scanned, chosen, estimatedTokens, promptParts,
                    reportStats, basicParts >>

\* keyAnswer.retryWithNewKey is false: throw new UserExitError(...)
DeclineNewKey ==
    /\ pc = "ask_key"
    /\ declined' = TRUE
    /\ choiceAt' = [ calls |-> Len(gwLog), scans |-> scans ]
    /\ error' = UserExitError("User chose not to provide new API key")
    /\ raisedBy' = "user"
    /\ runResult' = "userExit"
    /\ pc' = "top"
    /\ UNCHANGED << cwd, config, client, files, prompt, attempt, analysis,
                    waitTime, i, depth, report, disk, exitStatus, gwLog,
                    backoffs, promptsShown, scans, promptBuilds, assembled,
                    saves, fallbackChosen, exitChosen, keysTyped, reentries,
                    passEntry, configAtRetry, elapsed, rawMessage,
                    caseVariant, classified, classification,
                    variantClassification, scanPc, tree, allFiles, cursor,
                    fileInfos, scanError, visitLog, stage, scanned, chosen,
                    estimatedTokens, promptParts, reportStats, basicParts >>

(***************************************************************************)
(* analyzeFallback (src/src/fallback-analyzer.ts): called from the catch   *)
(* block, so what it throws goes to handleAnalysis.                        *)
(***************************************************************************)
\* scanRepository and generateBasicAnalysis.
FallbackScan ==
    /\ pc = "fb_scan"
    /\ scans' = scans + 1
    /\ \/ /\ files' = scans + 1
          /\ analysis' = generateBasicAnalysis(scans + 1)
          /\ pc' = "fb_report"
          /\ UNCHANGED << error, raisedBy, runResult >>
       \/ /\ error' = FsError(cwd, "ENOENT: no such file or directory", "stat",
                              "/notes.tmp")
          /\ raisedBy' = "fallback"
          /\ runResult' = "fatal"
          /\ pc' = "top"
          /\ UNCHANGED << files, analysis >>
    /\ UNCHANGED << cwd, config, client, prompt, attempt, waitTime, i, depth,
                    report, disk, exitStatus, gwLog, backoffs, promptsShown,
                    promptBuilds, assembled, saves, fallbackChosen, declined,
                    exitChosen, choiceAt, keysTyped, reentries, passEntry,
                    configAtRetry, elapsed, rawMessage, caseVariant,
                    classified, classification, variantClassification, scanPc,
                    tree, allFiles, cursor, fileInfos, scanError, visitLog,
                    stage, scanned, chosen, estimatedTokens, promptParts,
                    reportStats, basicParts >>

\* generateReport(files, analysis, "fallback-analyzer"), saveReport, return.
FallbackAssembleAndSave ==
    /\ pc = "fb_report"
    /\ assembled' = assembled + 1
    /\ saves' = saves + 1
    /\ LET rep == generateReport(files, analysis, "fallback-analyzer", "standard")
       IN  \/ /\ disk' = saveReport(disk, rep, "none")
              /\ report' = rep
              /\ runResult' = "success"
              /\ pc' = "server"
              /\ UNCHANGED << error, raisedBy >>
           \/ \E failAt \in { SaveSteps[k] : k \in 1..Len(SaveSteps) } :
              /\ disk' = saveReport(disk, rep, failAt)
              /\ error' = SaveError(cwd, failAt)
              /\ raisedBy' = "fallback"
              /\ runResult' = "fatal"
              /\ pc' = "top"
              /\ UNCHANGED report
    /\ UNCHANGED << cwd, config, client, files, prompt, attempt, analysis,
                    waitTime, i, depth, exitStatus, gwLog, backoffs,
                    promptsShown, scans, promptBuilds, fallbackChosen,
                    declined, exitChosen, choiceAt, keysTyped, reentries,
                    passEntry, configAtRetry, elapsed, rawMessage,
                    caseVariant, classified, classification,
                    variantClassification, scanPc, tree, allFiles, cursor,
                    fileInfos, scanError, visitLog, stage, scanned, chosen,
                    estimatedTokens, promptParts, reportStats, basicParts >>

Next ==
    \/ HandleAnalysisStart
    \/ Scan
    \/ BuildPrompt
    \/ GatewaySucceeds
    \/ GatewayFails
    \/ BackoffWait
    \/ AssembleAndSave
    \/ Catch
    \/ ChooseFallback
    \/ ChooseRetry
    \/ CountdownTick
    \/ RetryAfterCountdown
    \/ ChooseExit
    \/ ConfirmNewKey
    \/ EnterNewKey
    \/ DeclineNewKey
    \/ FallbackScan
    \/ FallbackAssembleAndSave
    \/ StartServer
    \/ TopLevelCatch

Spec == Init /\ [][Next]_vars

\* A run in which every scan, Gateway call, timed wait, prompt and file write
\* returns: whenever a step is possible, one is taken.  The user's re-entries
\* are finitely many by MaxReentries.
FairSpec == Spec /\ WF_vars(Next)

(***************************************************************************)
(* parseGeminiError on its own: one message and a letter-case variant of   *)
(* it are classified.                                                      *)
(***************************************************************************)
ClassifierInit ==
    /\ RunIdle
    /\ ScannerIdle
    /\ FileListIdle
    /\ rawMessage \in Messages
    /\ caseVariant \in CaseVariants(rawMessage)
    /\ classified = FALSE
    /\ classification = NoClassification
    /\ variantClassification = NoClassification

\* const errorInfo = parseGeminiError(error), for both messages.
ClassifyMessage ==
    /\ ~ classified
    /\ classified' = TRUE
    /\ classification' =
          parseGeminiError([ name |-> "Error", message |-> rawMessage ])
    /\ variantClassification' =
          parseGeminiError([ name |-> "Error", message |-> caseVariant ])
    /\ UNCHANGED << pc, cwd, config, client, files, prompt, attempt, analysis,
                    error, raisedBy, waitTime, i, depth, report, disk,
                    runResult, exitStatus, gwLog, backoffs, promptsShown,
                    scans, promptBuilds, assembled, saves, fallbackChosen,
                    declined, exitChosen, choiceAt, keysTyped, reentries,
                    passEntry, configAtRetry, elapsed, rawMessage,
                    caseVariant, scanPc, tree, allFiles, cursor, fileInfos,
                    scanError, visitLog, stage, scanned, chosen,
                    estimatedTokens, promptParts, reportStats, basicParts >>

ClassifierNext ==
    \/ ClassifyMessage

ClassifierSpec == ClassifierInit /\ [][ClassifierNext]_vars

(***************************************************************************)
(* scanRepository on its own, over one tree.                               *)
(***************************************************************************)
ScannerInit ==
    /\ RunIdle
    /\ ClassifierIdle
    /\ FileListIdle
    /\ scanPc = "glob"
    /\ tree \in Trees
    /\ allFiles = << >>
    /\ cursor = 0
    /\ fileInfos = << >>
    /\ scanError = "none"
    /\ visitLog = << >>

\* const allFiles = await glob("**/*", ...): the listing, or a rejection
\* when the root directory cannot be listed.
GlobFiles ==
    /\ scanPc = "glob"
    /\ \/ /\ allFiles' = [ k \in 1..Len(tree) |-> tree[k].path ]
          /\ cursor' = 1
          /\ scanPc' = "loop"
          /\ UNCHANGED scanError
       \/ /\ scanError' = "glob"
          /\ scanPc' = "rejected"
          /\ UNCHANGED << allFiles, cursor >>
    /\ UNCHANGED << pc, cwd, config, client, files, prompt, attempt, analysis,
                    error, raisedBy, waitTime, i, depth, report, disk,
                    runResult, exitStatus, gwLog, backoffs, promptsShown,
                    scans, promptBuilds, assembled, saves, fallbackChosen,
                    declined, exitChosen, choiceAt, keysTyped, reentries,
                    passEntry, configAtRetry, elapsed, rawMessage,
                    caseVariant, classified, classification,
                    variantClassification, tree, fileInfos, visitLog, stage,
                    scanned, chosen, estimatedTokens, promptParts,
                    reportStats, basicParts >>

\* One round of  for (const filePath of allFiles)  (lines 52-83).
VisitFile ==
    /\ scanPc = "loop"
    /\ cursor <= Len(allFiles)
    /\ LET filePath  == allFiles[cursor]
           entry     == tree[cursor]
           extension == extname(filePath)
           important == isImportant(filePath, extension)
           outcome   ==
               IF ~ entry.exists THEN "stat_failed"
               ELSE IF TooLarge(entry.size) THEN "too_large"
               ELSE IF ~ MayInclude(important, Len(fileInfos)) THEN "over_cap"
               ELSE IF ~ entry.readable THEN "unreadable"
               ELSE "pushed"
       IN  /\ visitLog' = Append(visitLog,
                                 [ path |-> filePath, outcome |-> outcome,
                                   important |-> important,
                                   lengthBefore |-> Len(fileInfos) ])
           /\ fileInfos' =
                 IF outcome = "pushed"
                 THEN Append(fileInfos,
                             [ path |-> filePath, content |-> entry.content,
                               size |-> entry.size, extension |-> extension ])
                 ELSE fileInfos
           /\ IF outcome = "stat_failed"
              THEN /\ scanPc' = "rejected"
                   /\ scanError' = "stat"
                   /\ UNCHANGED cursor
              ELSE /\ cursor' = cursor + 1
                   /\ UNCHANGED << scanPc, scanError >>
    /\ UNCHANGED << pc, cwd, config, client, files, prompt, attempt, analysis,
                    error, raisedBy, waitTime, i, depth, report, disk,
                    runResult, exitStatus, gwLog, backoffs, promptsShown,
                    scans, promptBuilds, assembled, saves, fallbackChosen,
                    declined, exitChosen, choiceAt, keysTyped, reentries,
                    passEntry, configAtRetry, elapsed, rawMessage,
                    caseVariant, classified, classification,
                    variantClassification, tree, allFiles, stage, scanned,
                    chosen, estimatedTokens, promptParts, reportStats,
                    basicParts >>

\* return files.sort(...)
ReturnSorted ==
    /\ scanPc = "loop"
    /\ cursor > Len(allFiles)
    /\ fileInfos' = SortFiles(fileInfos)
    /\ scanPc' = "returned"
    /\ UNCHANGED << pc, cwd, config, client, files, prompt, attempt, analysis,
                    error, raisedBy, waitTime, i, depth, report, disk,
                    runResult, exitStatus, gwLog, backoffs, promptsShown,
                    scans, promptBuilds, assembled, saves, fallbackChosen,
                    declined, exitChosen, choiceAt, keysTyped, reentries,
                    passEntry, configAtRetry, elapsed, rawMessage,
                    caseVariant, classified, classification,
                    variantClassification, tree, allFiles, cursor, scanError,
                    visitLog, stage, scanned, chosen, estimatedTokens,
                    promptParts, reportStats, basicParts >>

ScannerNext ==
    \/ GlobFiles
    \/ VisitFile
    \/ ReturnSorted

ScannerSpec == ScannerInit /\ [][ScannerNext]_vars

(***************************************************************************)
(* The functions of a scan result on their own, over one scan result and   *)
(* one configuration, in the order in which analyzeRepository and          *)
(* analyzeFallback call them.                                              *)
(***************************************************************************)
FileListInit ==
    /\ RunIdle
    /\ ClassifierIdle
    /\ ScannerIdle
    /\ stage = "scanned"
    /\ scanned \in ScanResults
    /\ chosen \in Configs
    /\ estimatedTokens = -1
    /\ promptParts = NoPromptParts
    /\ reportStats = NoReportStats
    /\ basicParts = NoBasicParts

\* checkQuotaLimits(files, config.model): the estimate; the model is printed
\* only.
CheckQuotaLimits ==
    /\ stage = "scanned"
    /\ estimatedTokens' = estimateTokenUsage(scanned)
    /\ stage' = "estimated"
    /\ UNCHANGED << pc, cwd, config, client, files, prompt, attempt, analysis,
                    error, raisedBy, waitTime, i, depth, report, disk,
                    runResult, exitStatus, gwLog, backoffs, promptsShown,
                    scans, promptBuilds, assembled, saves, fallbackChosen,
                    declined, exitChosen, choiceAt, keysTyped, reentries,
                    passEntry, configAtRetry, elapsed, rawMessage,
                    caseVariant, classified, classification,
                    variantClassification, scanPc, tree, allFiles, cursor,
                    fileInfos, scanError, visitLog, scanned, chosen,
                    promptParts, reportStats, basicParts >>

\* const prompt = createAnalysisPrompt(files, config)
CreatePrompt ==
    /\ stage = "estimated"
    /\ promptParts' = createAnalysisPromptParts(scanned, chosen)
    /\ stage' = "prompted"
    /\ UNCHANGED << pc, cwd, config, client, files, prompt, attempt, analysis,
                    error, raisedBy, waitTime, i, depth, report, disk,
                    runResult, exitStatus, gwLog, backoffs, promptsShown,
                    scans, promptBuilds, assembled, saves, fallbackChosen,
                    declined, exitChosen, choiceAt, keysTyped, reentries,
                    passEntry, configAtRetry, elapsed, rawMessage,
                    caseVariant, classified, classification,
                    variantClassification, scanPc, tree, allFiles, cursor,
                    fileInfos, scanError, visitLog, scanned, chosen,
                    estimatedTokens, reportStats, basicParts >>

\* const report = await generateReport(files, analysis, ...), after the
\* prompt was answered or after generateBasicAnalysis.
GenerateReport ==
    /\ stage \in { "prompted", "analysed" }
    /\ reportStats' = generateReportStats(scanned)
    /\ stage' = "reported"
    /\ UNCHANGED << pc, cwd, config, client, files, prompt, attempt, analysis,
                    error, raisedBy, waitTime, i, depth, report, disk,
                    runResult, exitStatus, gwLog, backoffs, promptsShown,
                    scans, promptBuilds, assembled, saves, fallbackChosen,
                    declined, exitChosen, choiceAt, keysTyped, reentries,
                    passEntry, configAtRetry, elapsed, rawMessage,
                    caseVariant, classified, classification,
                    variantClassification, scanPc, tree, allFiles, cursor,
                    fileInfos, scanError, visitLog, scanned, chosen,
                    estimatedTokens, promptParts, basicParts >>

\* analyzeFallback: const basicAnalysis = generateBasicAnalysis(files), on
\* the scan result directly.
BasicAnalysis ==
    /\ stage = "scanned"
    /\ basicParts' = generateBasicAnalysisParts(scanned)
    /\ stage' = "analysed"
    /\ UNCHANGED << pc, cwd, config, client, files, prompt, attempt, analysis,
                    error, raisedBy, waitTime, i, depth, report, disk,
                    runResult, exitStatus, gwLog, backoffs, promptsShown,
                    scans, promptBuilds, assembled, saves, fallbackChosen,
                    declined, exitChosen, choiceAt, keysTyped, reentries,
                    passEntry, configAtRetry, elapsed, rawMessage,
                    caseVariant, classified, classification,
                    variantClassification, scanPc, tree, allFiles, cursor,
                    fileInfos, scanError, visitLog, scanned, chosen,
                    estimatedTokens, promptParts, reportStats >>

FileListNext ==
    \/ CheckQuotaLimits
    \/ CreatePrompt
    \/ BasicAnalysis
    \/ GenerateReport

FileListSpec == FileListInit /\ [][FileListNext]_vars

(***************************************************************************)
(* Properties.                                                             *)
(***************************************************************************)
KindOf(call) ==
    IF call.ok THEN "ok"
    ELSE Classify([ name |-> "Error", message |-> call.message ]).type

FatalKinds == { "content_too_large", "model_unavailable", "unknown" }

\* The positions inside the try block of a pass, and after a pass was left.
TryPcs   == { "scan", "prompt", "call", "backoff", "report" }
AfterPcs == { "catch", "ask_action", "ask_key", "enter_key", "countdown",
              "fb_scan", "fb_report", "server", "serving", "top", "exited" }

\* C1: when the Gateway's first two calls fail with rate_limit and its third
\* call succeeds, no prompt has been shown, the automatic backoff waits were
\* 2 s and then 4 s, and the report of the run carries the third call's text.
C1_TwoAutomaticRetries ==
    ( /\ Len(gwLog) >= 3
      /\ KindOf(gwLog[1]) = "rate_limit"
      /\ KindOf(gwLog[2]) = "rate_limit"
      /\ gwLog[3].ok )
    => /\ promptsShown = 0
       /\ backoffs = << 2, 4 >>
       /\ runResult \in { "none", "success" }
       /\ runResult = "success" =>
            /\ report.geminiSummary.src = "gemini"
            /\ report.geminiSummary.id = 3

C3_FatalKindsEndTheRun ==
    /\ ( gwLog # << >> /\ KindOf(Last(gwLog)) \in FatalKinds ) =>
          /\ pc \in { "catch", "top", "exited" }
          /\ error = [ name |-> "Error", message |-> Last(gwLog).message ]
          /\ Len(backoffs) = Last(gwLog).waits
          /\ promptsShown = Last(gwLog).prompts
          /\ scans = Last(gwLog).scans
          /\ ~ fallbackChosen
          /\ pc \in { "top", "exited" } => runResult = "fatal"
          /\ pc = "exited" => exitStatus = 1
    /\ ( gwLog # << >> /\ KindOf(gwLog[1]) \in FatalKinds ) =>
          /\ Len(gwLog) = 1
          /\ backoffs = << >>

\* The only Gateway call failed with content_too_large and the process has
\* exited with status 1, no prompt shown.
C3_Witness ==
    /\ pc = "exited"
    /\ Len(gwLog) = 1
    /\ KindOf(gwLog[1]) = "content_too_large"
    /\ promptsShown = 0
    /\ exitStatus = 1

RunEndedPcs == { "server", "serving", "top", "exited" }

\* C4 (as stated): once the user has answered "fallback", the run always
\* completes successfully with the Fallback Analyzer's text and makes no
\* further Gateway call.
C4_FallbackAlwaysSucceeds ==
    (fallbackChosen /\ pc \in RunEndedPcs) =>
       /\ runResult = "success"
       /\ report.geminiSummary.src = "fallback"
       /\ Len(gwLog) = choiceAt.calls

\* C4 (amended): from the answer "fallback" on no Gateway call is made; the
\* run then either succeeds with a report whose analysis text is the
\* Fallback Analyzer's text over its own scan, or ends as a fatal error that
\* the Fallback Analyzer's scan or save raised.
C4_FallbackBypassesGateway ==
    fallbackChosen =>
       /\ Len(gwLog) = choiceAt.calls
       /\ KindOf(Last(gwLog)) \in { "quota_exceeded", "rate_limit" }
       /\ pc \in { "fb_scan", "fb_report" } \cup RunEndedPcs
       /\ scans \in { choiceAt.scans, choiceAt.scans + 1 }
       /\ pc \in RunEndedPcs => runResult \in { "success", "fatal" }
       /\ runResult = "success" =>
             /\ report.geminiSummary = generateBasicAnalysis(report.files)
             /\ report.files = choiceAt.scans + 1
             /\ report.modelUsed = "fallback-analyzer"
             /\ \A f \in ReportFiles : disk[f] = report
       /\ runResult = "fatal" =>
             /\ raisedBy = "fallback"
             /\ report = NoReport
             /\ pc \in { "top", "exited" }

\* The user answered "fallback" after a quota_exceeded failure and the run
\* has succeeded with the Fallback Analyzer's text.
C4_Witness ==
    /\ fallbackChosen
    /\ runResult = "success"
    /\ pc = "serving"
    /\ KindOf(Last(gwLog)) = "quota_exceeded"
    /\ report.geminiSummary.src = "fallback"

\* C5: a user exit (the answer "exit", or declining a new key), at whatever
\* depth, reaches handleAnalysis as a UserExitError and ends the process with
\* status 0; every other error that reaches handleAnalysis ends it with
\* status 1; a user exit is never reported as an error nor an error as a
\* user exit.
C5_UserExitIsStatusZero ==
    /\ pc = "exited" =>
          /\ exitStatus \in { 0, 1 }
          /\ exitStatus = 0 <=> (exitChosen \/ declined)
    /\ pc # "exited" => exitStatus = -1
    /\ (exitChosen \/ declined) =>
          /\ pc \in { "top", "exited" }
          /\ error.name = "UserExitError"
          /\ raisedBy = "user"
          /\ runResult = "userExit"
    /\ ~ (exitChosen \/ declined) =>
          /\ error.name # "UserExitError"
          /\ runResult # "userExit"

\* The user declined a new key in a re-entered pass (depth 2) and the
\* process has exited with status 0.
C5_Witness ==
    /\ pc = "exited"
    /\ declined
    /\ depth >= 2
    /\ exitStatus = 0

C7_CountdownIsClassifierDelay ==
    /\ pc = "countdown" =>
          LET retryAfter == Classify(error).retryAfter
          IN  /\ waitTime = IF retryAfter # Undefined THEN retryAfter[1]
                            ELSE DefaultWait
              /\ elapsed + i = waitTime
    /\ passEntry = "wait" =>
          /\ elapsed = waitTime
          /\ config = configAtRetry
          /\ \A n \in 1..Len(gwLog) :
                gwLog[n].pass = reentries => gwLog[n].cfg = configAtRetry

\* C8 (as stated): every Gateway call after the first of a run is preceded
\* by a new scan and a new prompt build made after the previous call failed.
C8_EveryRetryRescans ==
    \A n \in 2..Len(gwLog) :
       /\ gwLog[n].prompt > gwLog[n - 1].prompt
       /\ gwLog[n].files > gwLog[n - 1].files
       /\ gwLog[n].scans > gwLog[n - 1].scans

\* C8 (amended): a Gateway call that opens a user-chosen re-entry
\* (wait-and-retry, or a new key) is preceded by a new scan and a new prompt
\* build made after the previous call; the automatic rate-limit retry
\* (the second call of a pass) sends again the prompt of the first call,
\* with no scan and no prompt build in between.
C8_OnlyUserRetriesRescan ==
    \A n \in 2..Len(gwLog) :
       /\ gwLog[n].attempt = 1 =>
             /\ gwLog[n].prompt > gwLog[n - 1].prompt
             /\ gwLog[n].files > gwLog[n - 1].files
             /\ gwLog[n].scans > gwLog[n - 1].scans
             /\ gwLog[n].files = gwLog[n].scans
       /\ gwLog[n].attempt = 2 =>
             /\ gwLog[n].prompt = gwLog[n - 1].prompt
             /\ gwLog[n].files = gwLog[n - 1].files
             /\ gwLog[n].scans = gwLog[n - 1].scans

\* An automatic retry followed by a user-chosen retry: the second call
\* reused the first prompt, the third came with a new scan and prompt.
C8_Witness ==
    /\ Len(gwLog) = 3
    /\ gwLog[2].attempt = 2
    /\ gwLog[2].prompt = gwLog[1].prompt
    /\ gwLog[3].attempt = 1
    /\ gwLog[3].prompt > gwLog[2].prompt

\* C9: when a run has ended as a user exit or as a fatal error, none of
\* report.json, report.md and report.html was written during the run and no
\* report was returned.
C9_NoReportOnExitOrFatal ==
    (pc \in { "top", "exited" } /\ runResult \in { "userExit", "fatal" }) =>
       /\ \A f \in ReportFiles : disk[f] = NoReport
       /\ report = NoReport

\* C10: in a run that has succeeded exactly one report was assembled and
\* saved, and its analysis text and its description come from one source:
\* the last Gateway call's output, or the Fallback Analyzer's text.
C10_OneReportPerSuccessfulRun ==
    runResult = "success" =>
       /\ assembled = 1
       /\ saves = 1
       /\ report.description = extractDescription(report.geminiSummary)
       /\ \/ report.geminiSummary.src = "fallback"
          \/ /\ report.geminiSummary.src = "gemini"
             /\ report.geminiSummary.id = Len(gwLog)
             /\ Last(gwLog).ok

\* C11: an error raised by the Report Assembler (saveReport on the AI path)
\* or by the Fallback Analyzer ends the run as a fatal error whatever its
\* message: the catch block rethrows it, no prompt is shown for it, and the
\* run goes nowhere but to handleAnalysis.
C11_AssemblerErrorsAreFatal ==
    raisedBy \in { "save", "fallback" } =>
       /\ pc \in { "catch", "top", "exited" }
       /\ pc = "catch" => CatchTarget(error) = "throw"
       /\ pc \in { "top", "exited" } => runResult = "fatal"
       /\ pc = "exited" => exitStatus = 1

(***************************************************************************)
(* Properties of the classifier (ClassifierSpec).                          *)
(***************************************************************************)
Kinds ==
    { "quota_exceeded", "rate_limit", "invalid_key", "content_too_large",
      "model_unavailable", "unknown" }

\* The kinds in detection order, and whether rule k matches the lower-cased
\* message low; rule 6 (unknown) always does.
KindOfRule ==
    << "quota_exceeded", "rate_limit", "invalid_key", "content_too_large",
       "model_unavailable", "unknown" >>
RuleMatches(k, low) ==
    CASE k = 1 -> \/ Includes(low, "exceeded your current quota")
                  \/ Includes(low, "quotafailure")
      [] k = 2 -> Includes(low, "429") /\ Includes(low, "rate_limit_exceeded")
      [] k = 3 -> Includes(low, "401") \/ Includes(low, "api_key")
      [] k = 4 -> Includes(low, "400") \/ Includes(low, "content")
      [] k = 5 -> Includes(low, "model") /\ Includes(low, "not found")
      [] OTHER -> TRUE
FirstRule(low) ==
    CHOOSE k \in 1..6 :
       /\ RuleMatches(k, low)
       /\ \A j \in 1..(k - 1) : ~ RuleMatches(j, low)

\* The two classified messages with their results.
Classified ==
    IF classified
    THEN { << rawMessage, classification >>,
           << caseVariant, variantClassification >> }
    ELSE { }

\* C12: for every message parseGeminiError returns exactly one of the six
\* kinds, the kind of the first rule, in the order quota, rate limit, key,
\* content, model, unknown, that the lower-cased message matches.
C12_FirstMatchWins ==
    \A pair \in Classified :
       /\ pair[2].type \in Kinds
       /\ pair[2].type = KindOfRule[FirstRule(ToLowerCase(pair[1]))]

\* A message that matches the quota rule, the key rule and the content rule
\* has been classified quota_exceeded.
C12_Witness ==
    /\ classified
    /\ RuleMatches(1, ToLowerCase(rawMessage))
    /\ RuleMatches(3, ToLowerCase(rawMessage))
    /\ RuleMatches(4, ToLowerCase(rawMessage))
    /\ classification.type = "quota_exceeded"

\* C13 (as stated): every message that contains "429" and
\* "rate_limit_exceeded" is classified rate_limit.
C13_RateLimitMarkersGiveRateLimit ==
    \A pair \in Classified :
       RuleMatches(2, ToLowerCase(pair[1])) => pair[2].type = "rate_limit"

\* C13 (amended): a message that contains "429" and "rate_limit_exceeded"
\* (in any letter case) is classified rate_limit when it contains neither
\* quota phrase, and quota_exceeded when it contains one; no other message
\* is classified rate_limit.
C13_RateLimitUnlessQuota ==
    \A pair \in Classified :
       LET low == ToLowerCase(pair[1])
       IN  /\ (RuleMatches(2, low) /\ ~ RuleMatches(1, low))
                => pair[2].type = "rate_limit"
           /\ (RuleMatches(2, low) /\ RuleMatches(1, low))
                => pair[2].type = "quota_exceeded"
           /\ pair[2].type = "rate_limit" => RuleMatches(2, low)

\* A message with both rate-limit markers, a key marker and no quota phrase
\* has been classified rate_limit.
C13_Witness ==
    /\ classified
    /\ RuleMatches(2, ToLowerCase(rawMessage))
    /\ RuleMatches(3, ToLowerCase(rawMessage))
    /\ ~ RuleMatches(1, ToLowerCase(rawMessage))
    /\ classification.type = "rate_limit"

\* A suggestion of the classification mentions the per-minute request limit.
MentionsPerMinuteLimit(info) ==
    \E k \in 1..Len(info.suggestions) :
       Includes(info.suggestions[k], "requests per minute limit")

\* C14 (as stated): every message that contains "exceeded your current
\* quota", "free_tier" and "PerMinute" is classified quota_exceeded with a
\* suggestion that mentions the per-minute request limit.
C14_FreeTierPerMinute ==
    \A pair \in Classified :
       ( /\ Includes(pair[1], "exceeded your current quota")
         /\ Includes(pair[1], "free_tier")
         /\ Includes(pair[1], "PerMinute") )
       => /\ pair[2].type = "quota_exceeded"
          /\ MentionsPerMinuteLimit(pair[2])

\* C14 (amended): a message that contains "exceeded your current quota" is
\* classified quota_exceeded, and the suggestions of a quota_exceeded
\* classification mention the per-minute request limit exactly when the
\* message contains, in this letter case, "free_tier", "requests" and
\* "PerMinute".
C14_FreeTierRequestsPerMinute ==
    \A pair \in Classified :
       /\ Includes(pair[1], "exceeded your current quota")
            => pair[2].type = "quota_exceeded"
       /\ pair[2].type = "quota_exceeded" =>
            ( MentionsPerMinuteLimit(pair[2])
              <=> /\ Includes(pair[1], "free_tier")
                  /\ Includes(pair[1], "requests")
                  /\ Includes(pair[1], "PerMinute") )

\* A free-tier request-count message with PerMinute got the per-minute
\* suggestion.
C14_Witness ==
    /\ classified
    /\ Includes(rawMessage, "exceeded your current quota")
    /\ Includes(rawMessage, "free_tier_requests")
    /\ Includes(rawMessage, "PerMinute")
    /\ MentionsPerMinuteLimit(classification)

\* The numbers N for which the message contains  retryDelay: "<N>s"  in
\* some letter case.
RetryDelayShapes(m) ==
    { n \in 0..MaxDelay :
        Includes(ToLowerCase(m),
                 "retrydelay: \"" \o ToString(n) \o "s\"") }

\* C15: when the message contains  retryDelay: "<N>s"  (any letter case)
\* the classification's retryAfter is N and a suggestion states N; when it
\* contains no such text retryAfter is absent.
C15_RetryDelayIsExtracted ==
    \A pair \in Classified :
       /\ \A n \in RetryDelayShapes(pair[1]) :
             /\ pair[2].retryAfter = << n >>
             /\ \E k \in 1..Len(pair[2].suggestions) :
                   pair[2].suggestions[k] = RetrySuggestion(n)
       /\ RetryDelayShapes(pair[1]) = { } => pair[2].retryAfter = Undefined

\* C16: two messages that differ in letter case only get the same kind, the
\* same suggestions and the same retryAfter.
C16_CaseInsensitive ==
    (classified /\ ToLowerCase(rawMessage) = ToLowerCase(caseVariant)) =>
       /\ classification.type = variantClassification.type
       /\ classification.suggestions = variantClassification.suggestions
       /\ classification.retryAfter = variantClassification.retryAfter

(***************************************************************************)
(* Properties of the scanner (ScannerSpec).                                *)
(***************************************************************************)
\* Important as the loop classifies a file for inclusion.
ImportantFile(file) == isImportant(file.path, extname(file.path))

ResultPaths == { fileInfos[k].path : k \in 1..Len(fileInfos) }

\* C17: every file in scanRepository's array has a size of at most 1 MiB; a
\* file larger than that, important or not, is skipped when visited, is not
\* in the result, and leaves the count the 50-file cap looks at unchanged.
C17_NoFileOverOneMiB ==
    /\ \A k \in 1..Len(fileInfos) : fileInfos[k].size <= OneMiB
    /\ \A j \in 1..Len(visitLog) :
          (tree[j].exists /\ tree[j].size > OneMiB) =>
             /\ visitLog[j].outcome = "too_large"
             /\ tree[j].path \notin ResultPaths
             /\ j < Len(visitLog) =>
                   visitLog[j + 1].lengthBefore = visitLog[j].lengthBefore
    /\ \A j \in 1..Len(visitLog) :
          (tree[j].exists /\ tree[j].size <= OneMiB) =>
             visitLog[j].outcome # "too_large"

\* A file over 1 MiB was visited first and skipped, and the 50 small files
\* after it are all in the result.
C17_Witness ==
    /\ scanPc = "returned"
    /\ Len(tree) = FileCap + 1
    /\ tree[1].size > OneMiB
    /\ visitLog[1].outcome = "too_large"
    /\ Len(fileInfos) = FileCap

\* C18: the result holds every important file that is at most 1 MiB and
\* readable, however many files there are; a non-important file was pushed
\* only when fewer than 50 files had been pushed before it, so the result
\* holds at most 50 non-important files.
C18_ImportantAlwaysOthersToCap ==
    /\ \A j \in 1..Len(visitLog) :
          /\ visitLog[j].important = ImportantFile(tree[j])
          /\ ( /\ visitLog[j].important
               /\ tree[j].exists
               /\ tree[j].size <= OneMiB
               /\ tree[j].readable )
             => /\ visitLog[j].outcome = "pushed"
                /\ tree[j].path \in ResultPaths
          /\ (visitLog[j].outcome = "pushed" /\ ~ visitLog[j].important)
             => visitLog[j].lengthBefore < FileCap
          /\ (~ visitLog[j].important /\ visitLog[j].lengthBefore >= FileCap)
             => tree[j].path \notin ResultPaths
    /\ Cardinality({ k \in 1..Len(fileInfos) :
                       ~ ImportantFile(fileInfos[k]) }) <= FileCap
    /\ scanPc = "returned" => Len(visitLog) = Len(tree)

\* After 50 files were pushed a non-important file was left out and an
\* important one was still pushed: the result holds 51 files.
C18_Witness ==
    /\ scanPc = "returned"
    /\ Len(fileInfos) = FileCap + 1
    /\ \E j \in 1..Len(visitLog) :
          /\ visitLog[j].outcome = "over_cap"
          /\ ~ visitLog[j].important
    /\ \E j \in 1..Len(visitLog) :
          /\ visitLog[j].outcome = "pushed"
          /\ visitLog[j].important
          /\ visitLog[j].lengthBefore = FileCap

\* C19: in the returned sequence every important file (allow-listed
\* extension, or path containing package.json, README or config) comes
\* before every non-important file, and within each of the two groups the
\* sizes ascend.
C19_ImportantFirstThenSize ==
    scanPc = "returned" =>
       \A j, k \in 1..Len(fileInfos) :
          j < k =>
             /\ ~ (~ ImportantFile(fileInfos[j]) /\ ImportantFile(fileInfos[k]))
             /\ ImportantFile(fileInfos[j]) = ImportantFile(fileInfos[k])
                   => fileInfos[j].size <= fileInfos[k].size

\* C20: a file that cannot be stat-ed or cannot be read is skipped and the
\* loop goes on to the next file; scanRepository rejects only when glob
\* rejects.
C20_FileErrorsAreSkipped ==
    /\ scanPc = "rejected" => scanError = "glob"
    /\ \A j \in 1..Len(visitLog) :
          (~ tree[j].exists \/ ~ tree[j].readable) =>
             /\ tree[j].path \notin ResultPaths
             /\ scanPc \in { "loop", "returned" }
             /\ cursor > j

(***************************************************************************)
(* Properties of the functions of a scan result (FileListSpec).            *)
(***************************************************************************)
\* By how many characters a file's content is let grow.
Growths == { 1, 3, 1000 }

\* The sum over the files of min(content length, 2000).
CountedChars(fileSeq) ==
    LET upTo[k \in 0..Len(fileSeq)] ==
            IF k = 0 THEN 0
            ELSE upTo[k - 1] + (IF fileSeq[k].length > 2000 THEN 2000
                                ELSE fileSeq[k].length)
    IN  upTo[Len(fileSeq)]

\* C21: the estimate is ceil((1000 + sum of min(content length, 2000)) / 4),
\* whatever the model: 250 for no files, never smaller when a file is added
\* or a file's content grows, and the same when a file already longer than
\* 2000 characters grows.
C21_EstimateIsCappedAndMonotone ==
    estimatedTokens # -1 =>
       /\ 4 * estimatedTokens >= 1000 + CountedChars(scanned)
       /\ 4 * (estimatedTokens - 1) < 1000 + CountedChars(scanned)
       /\ (scanned = << >> => estimatedTokens = 250)
       /\ \A k \in 1..Len(Samples) :
             estimateTokenUsage(Append(scanned, Samples[k])) >= estimatedTokens
       /\ \A k \in 1..Len(scanned), g \in Growths :
             LET grown == [ scanned EXCEPT ![k].length = @ + g ]
             IN  /\ estimateTokenUsage(grown) >= estimatedTokens
                 /\ ( scanned[k].length > 2000 =>
                        estimateTokenUsage(grown) = estimatedTokens )

\* An estimate for the advanced tier over more than 12 files, one of them
\* longer than 2000 characters.
C21_Witness ==
    /\ estimatedTokens # -1
    /\ chosen.modelType = "advanced"
    /\ Len(scanned) > 12
    /\ \E k \in 1..Len(scanned) : scanned[k].length > 2000

\* The file of the scan result that a block of the prompt was made from.
FileOfBlock(block) ==
    CHOOSE file \in { scanned[k] : k \in 1..Len(scanned) } :
        file.path = block.path

Prompted == promptParts.total # -1

\* C22: the standard tier's prompt has at most 12 blocks of at most 1200
\* characters of content each, the advanced tier's at most 20 blocks of at
\* most 2000 characters; a block carries the truncation marker exactly when
\* its file's content is longer than the tier's limit.
C22_TierCapsAndTruncationMarker ==
    Prompted =>
       LET advanced == chosen.modelType = "advanced"
           blockCap == IF advanced THEN 20 ELSE 12
           charCap  == IF advanced THEN 2000 ELSE 1200
       IN  /\ Len(promptParts.blocks) <= blockCap
           /\ \A k \in 1..Len(promptParts.blocks) :
                 LET block == promptParts.blocks[k]
                 IN  /\ block.content <= charCap
                     /\ block.truncated <=> FileOfBlock(block).length > charCap

\* A standard-tier prompt filled to its 12 blocks from a longer scan result,
\* with a block cut at 1200 characters and a block that is not cut.
C22_Witness ==
    /\ Prompted
    /\ chosen.modelType = "standard"
    /\ Len(scanned) > 12
    /\ Len(promptParts.blocks) = 12
    /\ \E k \in 1..12 : /\ promptParts.blocks[k].truncated
                        /\ promptParts.blocks[k].content = 1200
    /\ \E k \in 1..12 : ~ promptParts.blocks[k].truncated

\* Is the file at position k of the scan result in the prompt?
InPrompt(k) ==
    \E b \in 1..Len(promptParts.blocks) :
        promptParts.blocks[b].path = scanned[k].path

\* Is the file's base name written in the report's structure text?
InStructure(file) ==
    \E section \in reportStats.structure :
        /\ section.dir = dirname(file.path)
        /\ \E n \in 1..Len(section.shown) :
              section.shown[n] = basename(file.path)

\* C23: a scanned file is left out of the prompt exactly when its size
\* exceeds 30 000 bytes or the tier's file count is already filled by the
\* files before it that do not exceed 30 000 bytes; the files left out are
\* counted in totalFiles and totalLines and named in the structure text.
C23_LeftOutOfPromptKeptInReport ==
    ( Prompted /\ reportStats.totalFiles # -1 ) =>
       LET blockCap == IF chosen.modelType = "advanced" THEN 20 ELSE 12
           before(k) == { j \in 1..(k - 1) : scanned[j].size <= 30000 }
       IN  /\ \A k \in 1..Len(scanned) :
                 ~ InPrompt(k) <=> \/ scanned[k].size > 30000
                                   \/ Cardinality(before(k)) >= blockCap
           /\ reportStats.totalFiles = Len(scanned)
           /\ reportStats.totalLines = totalLines(scanned)
           /\ \A k \in 1..Len(scanned) :
                 ~ InPrompt(k) => InStructure(scanned[k])

\* C24 (as claimed): an advanced-tier prompt ends with the enhanced block and
\* the 800-1200 words target, a standard-tier prompt with the 500-700 words
\* target and no enhanced block.
C24_EnhancedBlockForAdvancedTier ==
    Prompted =>
       IF chosen.modelType = "advanced"
       THEN promptParts.tail = [ enhanced |-> TRUE, words |-> "800-1200" ]
       ELSE promptParts.tail = [ enhanced |-> FALSE, words |-> "500-700" ]

\* C24 (amended): the prompt ends with the enhanced block and the 800-1200
\* words target exactly when the tier is advanced and the advanced features
\* are enabled; in every other case, an advanced tier with the features
\* declined included, it ends with the 500-700 words target and has no
\* enhanced block.
C24_EnhancedBlockNeedsTheFeatureFlag ==
    Prompted =>
       IF chosen.modelType = "advanced" /\ chosen.enableAdvancedFeatures
       THEN promptParts.tail = [ enhanced |-> TRUE, words |-> "800-1200" ]
       ELSE promptParts.tail = [ enhanced |-> FALSE, words |-> "500-700" ]

\* An advanced-tier prompt built with the advanced features declined.
C24_Witness ==
    /\ Prompted
    /\ chosen.modelType = "advanced"
    /\ ~ chosen.enableAdvancedFeatures
    /\ ~ promptParts.tail.enhanced

\* C30: the number the prompt announces as shown ("showing first N") is the
\* number of file blocks in the prompt.
C30_AnnouncedCountIsBlockCount ==
    Prompted => promptParts.showing = Len(promptParts.blocks)

\* The project-type labels in their priority, and the condition of each on
\* the file set.
Labels ==
    << "Next.js web application", "React application", "Node.js application",
       "Python application", "Go application" >>
LabelApplies(n) ==
    LET paths      == { scanned[k].path : k \in 1..Len(scanned) }
        extensions == { scanned[k].extension : k \in 1..Len(scanned) }
    IN  CASE n = 1 -> \E path \in paths : Includes(path, "next.config")
          [] n = 2 -> extensions \cap { ".tsx", ".jsx" } # { }
          [] n = 3 -> \E path \in paths : Includes(path, "package.json")
          [] n = 4 -> ".py" \in extensions
          [] n = 5 -> ".go" \in extensions

Analysed == basicParts.projectType # ""

\* C25: the project type is the first label, in the priority Next.js, React,
\* Node.js (manifest present), Python, Go, whose condition holds for the file
\* set, and "software" only when none holds; a file set with next.config.js
\* is a "Next.js web application" whatever else it holds.
C25_LabelByFixedPriority ==
    Analysed =>
       LET applying == { n \in 1..Len(Labels) : LabelApplies(n) }
       IN  /\ applying # { } =>
                 \E n \in applying :
                    /\ \A m \in applying : n <= m
                    /\ basicParts.projectType = Labels[n]
           /\ applying = { } <=> basicParts.projectType = "software"
           /\ ( \E k \in 1..Len(scanned) : scanned[k].path = "next.config.js" )
                 => basicParts.projectType = "Next.js web application"

\* A file set with next.config.js and a React component: two labels apply.
C25_Witness ==
    /\ Analysed
    /\ LabelApplies(1)
    /\ LabelApplies(2)
    /\ basicParts.projectType = "Next.js web application"

\* The file set that holds main.go and nothing else.
OnlyMainGo ==
    /\ Len(scanned) = 1
    /\ scanned[1].path = "main.go"

\* C26 (as claimed): for main.go alone the technology stack includes "Go" and
\* the project type is "software".
C26_MainGoAloneIsSoftware ==
    ( Analysed /\ OnlyMainGo ) =>
       /\ Listed(basicParts.techStack, "Go")
       /\ basicParts.projectType = "software"

\* C26 (amended): for main.go alone the technology stack is "Go" and the
\* project type is "Go application".
C26_MainGoAloneIsGoApplication ==
    ( Analysed /\ OnlyMainGo ) =>
       /\ basicParts.techStack = << "Go" >>
       /\ basicParts.projectType = "Go application"

\* The fallback analysis of main.go alone.
C26_Witness ==
    /\ Analysed
    /\ OnlyMainGo
    /\ stage = "analysed"

(***************************************************************************)
(* Properties of a whole run (Spec), continued.                            *)
(***************************************************************************)
\* The Gateway calls made in pass p (pass 0 is the first, pass p the one
\* entered by the p-th user-chosen re-entry).
CallsOfPass(p) == { n \in 1..Len(gwLog) : gwLog[n].pass = p }

\* C27: the automatic-retry budget is per pass: every pass, the first and
\* each one entered by a user-chosen re-entry, starts at attempt 1 and makes
\* at most 2 Gateway calls, so a run with r re-entries makes at most
\* 2 * (r + 1) calls; every re-entry nests one more analyzeRepository call.
C27_BudgetPerPass ==
    /\ Len(gwLog) <= 2 * (reentries + 1)
    /\ \A p \in 0..reentries :
          /\ Cardinality(CallsOfPass(p)) <= 2
          /\ CallsOfPass(p) # { } =>
                gwLog[CHOOSE n \in CallsOfPass(p) :
                        \A m \in CallsOfPass(p) : n <= m].attempt = 1
    /\ \A n \in 1..Len(gwLog) : gwLog[n].pass \in 0..reentries
    /\ pc \notin ({ "off", "start" } \cup RunEndedPcs) => depth = reentries + 1

\* Every pass of a run with as many re-entries as are followed here has
\* used its whole budget: 2 * (r + 1) calls.
C27_Witness ==
    /\ reentries = MaxReentries
    /\ reentries > 0
    /\ depth = reentries + 1
    /\ Len(gwLog) = 2 * (reentries + 1)

\* C28: in every step of a run the configuration's model, tier and
\* advanced-features flag stay as they are, and the API key changes only in
\* the step that stores the key the user entered after confirming, in the
\* invalid_key branch; no other step changes the configuration.
C28_OnlyTheKeyChanges ==
    [][ /\ config'.model = config.model
        /\ config'.modelType = config.modelType
        /\ config'.enableAdvancedFeatures = config.enableAdvancedFeatures
        /\ config' # config =>
              /\ pc = "enter_key"
              /\ Classify(error).type = "invalid_key"
              /\ keysTyped' = Append(keysTyped, config'.apiKey) ]_vars

\* An advanced-tier run that has called the Gateway again with a new key.
C28_Witness ==
    /\ config.modelType = "advanced"
    /\ config.apiKey # InitialApiKey
    /\ keysTyped = << config.apiKey >>
    /\ gwLog # << >>
    /\ Last(gwLog).key = config.apiKey

\* How analyzeRepository ended: "ai" and "fallback" are the two successes,
\* by the text of the report; "none" while it has not ended.
Outcome ==
    CASE runResult = "success" /\ report.geminiSummary.src = "gemini"
            -> "ai"
      [] runResult = "success" /\ report.geminiSummary.src # "gemini"
            -> "fallback"
      [] runResult = "userExit" -> "userExited"
      [] runResult = "fatal"    -> "fatal"
      [] OTHER                  -> "none"

\* The backoff waits of the current pass: those after the pass's first call.
WaitsOfPass(p) ==
    IF CallsOfPass(p) = { } THEN 0
    ELSE Len(backoffs)
         - gwLog[CHOOSE n \in CallsOfPass(p) :
                   \A m \in CallsOfPass(p) : n <= m].waits

\* C29: when every operation returns and the user re-enters finitely often,
\* a run that has begun its analysis ends in one outcome (AI text, fallback
\* text, user exit or fatal error) and keeps it, and the process ends; a
\* pass of generateWithRetry makes at most 2 Gateway calls and 1 backoff
\* wait, and its "Max retries exceeded" error is never raised.
C29_EveryRunEnds ==
    /\ <>(pc \in { "serving", "exited" })
    /\ [](pc \in { "serving", "exited" } /\ scans > 0 => Outcome # "none")
    /\ [][ Outcome # "none" => Outcome' = Outcome ]_vars
    /\ [](/\ raisedBy # "loop"
          /\ error.message # "Max retries exceeded"
          /\ Cardinality(CallsOfPass(reentries)) <= 2
          /\ WaitsOfPass(reentries) <= 1)

\* A run that ended with AI text after an automatic retry and after as many
\* user-chosen re-entries as are followed.
C29_Witness ==
    /\ pc = "serving"
    /\ Outcome = "ai"
    /\ reentries = MaxReentries
    /\ backoffs # << >>

====
